---- MODULE Spec2Model ----
(***************************************************************************)
(* Sorted-intersection executor of the pattern-match query engine          *)
(* (executor/read/immediate_executor.rs): IntersectionExecutor and its     *)
(* CartesianIterator, driven by prepare / batch_continue / reset.          *)
(*                                                                         *)
(* Indices are 1-based here and 0-based in the source: iterator slot i of  *)
(* the source is slot i+1 of the model.                                    *)
(***************************************************************************)
EXTENDS Integers, Sequences, FiniteSets, TLC

\* ------------------------------------------------------------------ bounds
MaxExec == 3        \* instruction executors of a step
MaxKey == 2         \* sort-variable values 1..MaxKey of a store with duplicates
MaxCells == 4       \* executors * keys of a store with duplicates
MaxPlainKey == 3    \* sort-variable values of a store of single tuples
MaxPlainCells == 6  \* executors * keys of a store of single tuples
MaxInputRows == 2   \* rows of a prepared input batch
BatchRowsMax == 2   \* capacity of a FixedBatch
MaxResets == 1      \* calls of reset in one behaviour
MaxSelectExec == 2  \* instruction executors of a step with a selection

\* VariableValue::None
NoValue == 0
\* Provenance::INITIAL
ProvenanceInitial == 0

VARIABLES
    instruction_count,  \* number of instruction executors of the step
    store,              \* the tuples each instruction executor reads
    outputs_selected,   \* positions projected into output rows
    ex,                 \* the IntersectionExecutor
    out,                \* rows returned since the last prepare
    returned,           \* what the last operation returned
    batch_in,           \* the batch given to the last prepare
    resets,             \* how often reset has been called
    replay,             \* the last prepare came right after a reset
    planner,            \* the beam search of ConjunctionPlanBuilder
    imm,                \* the ImmediateExecutor built for a step
    disjunction         \* the Disjunction being built and optimised

vars == <<instruction_count, store, outputs_selected, ex, out, returned, batch_in,
          resets, replay, planner, imm, disjunction>>

\* The variables of the executor.
executor_vars == <<instruction_count, store, outputs_selected, ex, out, returned, batch_in,
                   resets, replay, imm, disjunction>>

\* No query is being planned.
PlannerIdle == [phase |-> "idle"]

\* No step is being given an executor.
ImmediateIdle == [phase |-> "idle"]

\* No disjunction is being built.
DisjunctionIdle == [phase |-> "idle"]

\* ---------------------------------------------------------- row positions
InPos == 1
SortPos == 2
ValPos(e) == 2 + e
OutputWidth == instruction_count + 2

EmptyRowVals == [p \in 1..OutputWidth |-> NoValue]

\* `let v = ...; body`: body applied to the value of v.
With(v, body(_)) == CHOOSE r \in {body(x) : x \in {v}} : TRUE

\* ------------------------------------------------- sorted tuple iterators
\* The tuples of one sort-variable value, by pattern: absent, one tuple,
\* two distinct tuples, one tuple twice, one tuple twice and another one.
KeyPatterns == {<<>>, <<1>>, <<1, 2>>, <<1, 1>>, <<1, 1, 2>>}

\* A sort-variable value that is absent or has one tuple.
PlainPatterns == {<<>>, <<1>>}

RECURSIVE FlattenKeys(_, _)
FlattenKeys(p, k) ==
    IF k > Len(p) THEN <<>>
    ELSE [j \in 1..Len(p[k]) |-> <<k, p[k][j]>>] \o FlattenKeys(p, k + 1)

DataOptions(nk, patterns) == {FlattenKeys(p, 1) : p \in [1..nk -> patterns]}

\* The instruction whose table serves executor e for input value x.
TableOf(e, x) == ((e + x - 2) % instruction_count) + 1

Data(e, x) == store[TableOf(e, x)]

NoIter == [exec |-> 0, inp |-> 0, pos |-> 0]

GetIterator(e, input_vals) == [exec |-> e, inp |-> input_vals[InPos], pos |-> 1]

Tuples(it) == Data(it.exec, it.inp)

HasPeek(it) == it.pos <= Len(Tuples(it))

PeekTuple(it) == Tuples(it)[it.pos]

PeekKey(it) == PeekTuple(it)[1]

PeeksValue(it, value) == HasPeek(it) /\ PeekKey(it) = value

AdvanceSingle(it) == [it EXCEPT !.pos = @ + 1]

RECURSIVE RunLength(_, _, _)
RunLength(tuples, pos, t) ==
    IF pos <= Len(tuples) /\ tuples[pos] = t THEN 1 + RunLength(tuples, pos + 1, t) ELSE 0

AdvancePastCount(it) == RunLength(Tuples(it), it.pos, PeekTuple(it))

AdvancePast(it) == [it EXCEPT !.pos = @ + AdvancePastCount(it)]

RECURSIVE AdvanceUntilFirstUnboundIs(_, _)
AdvanceUntilFirstUnboundIs(it, target) ==
    IF HasPeek(it) /\ PeekKey(it) < target
    THEN AdvanceUntilFirstUnboundIs(AdvanceSingle(it), target)
    ELSE it

WriteValues(it, vals) ==
    [vals EXCEPT ![SortPos] = PeekTuple(it)[1], ![ValPos(it.exec)] = PeekTuple(it)[2]]

\* ------------------------------------------------------- CartesianIterator
CartesianNew ==
    [is_active |-> FALSE,
     intersection_value |-> NoValue,
     input_row |-> EmptyRowVals,
     intersection_source |-> EmptyRowVals,
     intersection_multiplicity |-> 1,
     cartesian_executor_indices |-> <<>>,
     iterators |-> [i \in 1..instruction_count |-> NoIter]]

CartesianClear(c) == [c EXCEPT !.iterators = [i \in 1..instruction_count |-> NoIter]]

\* get_iterator on instruction executor `executor` with the recorded input
\* row, then advance_until_first_unbound_is(intersection_value).
ReopenIterator(c, executor) ==
    AdvanceUntilFirstUnboundIs(GetIterator(executor, c.input_row), c.intersection_value)

\* The iterator that activate() puts into slot `index`.
ActivateSlot(c, index) ==
    LET preexisting == c.iterators[index] IN
    IF preexisting = NoIter THEN ReopenIterator(c, index)
    ELSE IF ~HasPeek(preexisting) THEN ReopenIterator(c, index)
    ELSE IF PeekKey(preexisting) < c.intersection_value
         THEN AdvanceUntilFirstUnboundIs(preexisting, c.intersection_value)
    ELSE IF PeekKey(preexisting) = c.intersection_value THEN preexisting
    ELSE ReopenIterator(c, index)

RECURSIVE ActivateLoop(_, _, _)
ActivateLoop(c, intersection_iterators, index) ==
    IF index > Len(intersection_iterators) THEN c
    ELSE IF PeeksValue(intersection_iterators[index], c.intersection_value)
    THEN ActivateLoop(
             [c EXCEPT !.cartesian_executor_indices = Append(@, index),
                       !.iterators[index] = ActivateSlot(c, index)],
             intersection_iterators, index + 1)
    ELSE ActivateLoop(c, intersection_iterators, index + 1)

CartesianActivate(c, source_intersection_value, input_row, source_intersection, source_multiplicity, intersection_iterators) ==
    ActivateLoop(
        [c EXCEPT !.is_active = TRUE,
                  !.input_row = [p \in 1..OutputWidth |->
                                    IF p <= Len(input_row) THEN input_row[p] ELSE @[p]],
                  !.intersection_source = source_intersection,
                  !.intersection_value = source_intersection_value,
                  !.intersection_multiplicity = source_multiplicity,
                  !.cartesian_executor_indices = <<>>],
        intersection_iterators, 1)

\* The instruction executor find_next reopens when the iterator at place
\* executor_index of cartesian_executor_indices has left the intersection.
FindNextReopenExecutor(c, executor_index) == executor_index

RECURSIVE FindNextLoop(_, _)
FindNextLoop(c, executor_index) ==
    LET iterator_index == c.cartesian_executor_indices[executor_index]
        iter == AdvanceSingle(c.iterators[iterator_index])
        c1 == [c EXCEPT !.iterators[iterator_index] = iter]
    IN  IF ~PeeksValue(iter, c.intersection_value)
        THEN IF executor_index = 1
             THEN [cart |-> [c1 EXCEPT !.is_active = FALSE], found |-> FALSE]
             ELSE FindNextLoop(
                      [c1 EXCEPT !.iterators[iterator_index] =
                                     ReopenIterator(c1, FindNextReopenExecutor(c1, executor_index))],
                      executor_index - 1)
        ELSE [cart |-> c1, found |-> TRUE]

CartesianFindNext(c) == FindNextLoop(c, Len(c.cartesian_executor_indices))

RECURSIVE WriteAll(_, _, _, _)
WriteAll(c, indices, k, vals) ==
    IF k > Len(indices) THEN vals
    ELSE WriteAll(c, indices, k + 1, WriteValues(c.iterators[indices[k]], vals))

CartesianWriteInto(c, selected) ==
    LET written == WriteAll(c, c.cartesian_executor_indices, 1, EmptyRowVals)
        unset == [p \in 1..OutputWidth |-> IF p \in selected THEN written[p] ELSE NoValue]
    IN  [vals |-> [p \in 1..OutputWidth |->
                      IF unset[p] = NoValue THEN c.intersection_source[p] ELSE unset[p]],
         mult |-> c.intersection_multiplicity]

\* ---------------------------------------------------- IntersectionExecutor
NoInput == [present |-> FALSE, rows |-> <<>>, idx |-> 1]

InputPeekSome(input) == input.present /\ input.idx <= Len(input.rows)

InputPeek(input) == input.rows[input.idx]

IntersectionExecutorNew ==
    [iterators |-> <<>>,
     cartesian_iterator |-> CartesianNew,
     input |-> NoInput,
     intersection_value |-> NoValue,
     intersection_row |-> EmptyRowVals,
     intersection_multiplicity |-> 1,
     intersection_provenance |-> ProvenanceInitial,
     panicked |-> FALSE,
     found_log |-> <<>>]

\* A loop body that does not ask for another pass when it meets an iterator
\* beyond the current maximum.
PassStepNoRetry(its, i, current_max_index, retry) ==
    IF ~HasPeek(its[i])
    THEN [its |-> its, max |-> current_max_index, retry |-> retry, failed |-> TRUE]
    ELSE LET current_max == PeekKey(its[current_max_index])
             peek == PeekKey(its[i])
         IN  IF current_max < peek
             THEN [its |-> its, max |-> i, retry |-> retry, failed |-> FALSE]
             ELSE IF current_max = peek
             THEN [its |-> its, max |-> current_max_index, retry |-> retry, failed |-> FALSE]
             ELSE LET iter_i == AdvanceUntilFirstUnboundIs(its[i], current_max)
                      its1 == [its EXCEPT ![i] = iter_i]
                  IN  IF ~HasPeek(iter_i)
                      THEN [its |-> its1, max |-> current_max_index, retry |-> retry,
                            failed |-> TRUE]
                      ELSE IF PeekKey(iter_i) = current_max
                      THEN [its |-> its1, max |-> current_max_index, retry |-> retry,
                            failed |-> FALSE]
                      ELSE [its |-> its1, max |-> i, retry |-> TRUE, failed |-> FALSE]

\* The body of the `for i in 0..self.iterators.len()` loop for one i that is
\* not current_max_index: lines 337-381.
PassStep(its, i, current_max_index, retry) ==
    IF ~HasPeek(its[i])
    THEN [its |-> its, max |-> current_max_index, retry |-> retry, failed |-> TRUE]
    ELSE LET current_max == PeekKey(its[current_max_index])
             peek == PeekKey(its[i])
         IN  IF current_max < peek
             THEN [its |-> its, max |-> i, retry |-> TRUE, failed |-> FALSE]
             ELSE IF current_max = peek
             THEN [its |-> its, max |-> current_max_index, retry |-> retry, failed |-> FALSE]
             ELSE LET iter_i == AdvanceUntilFirstUnboundIs(its[i], current_max)
                      its1 == [its EXCEPT ![i] = iter_i]
                  IN  IF ~HasPeek(iter_i)
                      THEN [its |-> its1, max |-> current_max_index, retry |-> retry,
                            failed |-> TRUE]
                      ELSE IF PeekKey(iter_i) = current_max
                      THEN [its |-> its1, max |-> current_max_index, retry |-> retry,
                            failed |-> FALSE]
                      ELSE [its |-> its1, max |-> i, retry |-> TRUE, failed |-> FALSE]

\* One run of the for loop, from iterator i on.
RECURSIVE FindPass(_, _, _, _)
FindPass(its, i, current_max_index, retry) ==
    IF i > Len(its)
    THEN [its |-> its, max |-> current_max_index, retry |-> retry, failed |-> FALSE]
    ELSE IF i = current_max_index THEN FindPass(its, i + 1, current_max_index, retry)
    ELSE LET step == PassStep(its, i, current_max_index, retry) IN
         IF step.failed THEN step
         ELSE FindPass(step.its, i + 1, step.max, step.retry)

\* A loop that takes the first pass that does not fail for an intersection.
FindLoopOnePass(its, current_max_index) ==
    LET pass == FindPass(its, 1, current_max_index, FALSE) IN
    IF pass.failed THEN [its |-> <<>>, found |-> FALSE] ELSE [its |-> pass.its, found |-> TRUE]

RECURSIVE FindLoop(_, _)
FindLoop(its, current_max_index) ==
    LET pass == FindPass(its, 1, current_max_index, FALSE) IN
    IF pass.failed THEN [its |-> <<>>, found |-> FALSE]
    ELSE IF ~pass.retry THEN [its |-> pass.its, found |-> TRUE]
    ELSE FindLoop(pass.its, pass.max)

\* A find_intersection that fails for a single iterator as it does for none.
FindIntersectionOfSeveral(its) ==
    IF Len(its) <= 1 THEN [its |-> its, found |-> FALSE]
    ELSE IF ~HasPeek(its[1]) THEN [its |-> <<>>, found |-> FALSE]
    ELSE FindLoop(its, 1)

FindIntersection(its) ==
    IF its = <<>> THEN [its |-> its, found |-> FALSE]
    ELSE IF Len(its) = 1 THEN [its |-> its, found |-> HasPeek(its[1])]
    ELSE IF ~HasPeek(its[1]) THEN [its |-> <<>>, found |-> FALSE]
    ELSE FindLoop(its, 1)

AllIteratorsIntersect(its) ==
    \A i \in 1..Len(its) : HasPeek(its[i]) /\ PeekKey(its[i]) = PeekKey(its[1])

\* Iterators opened for an input row, those that are empty being left out.
CreateIteratorsThatPeek(input_vals, e, its) ==
    SelectSeq([i \in 1..instruction_count |-> GetIterator(i, input_vals)], HasPeek)

RECURSIVE CreateIterators(_, _, _)
CreateIterators(input_vals, e, its) ==
    IF e > instruction_count THEN its
    ELSE LET iterator == GetIterator(e, input_vals) IN
         IF ~HasPeek(iterator) THEN <<>>
         ELSE CreateIterators(input_vals, e + 1, Append(its, iterator))

MayCreateIntersectionIterators(st) ==
    IF InputPeekSome(st.input)
    THEN [st EXCEPT !.intersection_provenance = InputPeek(st.input).prov,
                    !.iterators = CreateIterators(InputPeek(st.input).vals, 1, st.iterators)]
    ELSE st

\* A multiplicity that counts only the first iterator's duplicates.
MultiplicityFirst(its, i) ==
    IF i > Len(its) THEN 1 ELSE AdvancePastCount(its[i])

RECURSIVE MultiplicityFrom(_, _)
MultiplicityFrom(its, i) ==
    IF i > Len(its) THEN 1 ELSE AdvancePastCount(its[i]) * MultiplicityFrom(its, i + 1)

AdvanceIntersectionIteratorsWithMultiplicity(st) ==
    [st EXCEPT !.intersection_multiplicity = MultiplicityFrom(st.iterators, 1),
               !.iterators = [i \in 1..Len(st.iterators) |-> AdvancePast(st.iterators[i])]]

\* The loop of record_intersection over the iterators: the value recorded,
\* the row written, and whether an assert_eq failed.
RECURSIVE RecordLoop(_, _, _, _, _)
RecordLoop(its, i, value, vals, bad) ==
    IF i > Len(its) THEN [value |-> value, vals |-> vals, bad |-> bad]
    ELSE IF ~HasPeek(its[i]) THEN [value |-> value, vals |-> vals, bad |-> TRUE]
    ELSE IF value # NoValue
    THEN RecordLoop(its, i + 1, value, WriteValues(its[i], vals),
                    bad \/ PeekKey(its[i]) # value)
    ELSE RecordLoop(its, i + 1, PeekKey(its[i]), WriteValues(its[i], vals), bad)

\* A carry-over that also overwrites what the iterators wrote.
CarryInputOver(vals, input_vals, selected) ==
    [p \in 1..OutputWidth |->
        IF p \in selected /\ p <= Len(input_vals) /\ input_vals[p] # NoValue
        THEN input_vals[p] ELSE vals[p]]

\* Lines 471-481: input values carried into the positions left empty.
CarryInput(vals, input_vals, selected) ==
    [p \in 1..OutputWidth |->
        IF p \in selected /\ p <= Len(input_vals) /\ input_vals[p] # NoValue
           /\ vals[p] = NoValue
        THEN input_vals[p] ELSE vals[p]]

RecordIntersection(st) ==
    LET rec == RecordLoop(st.iterators, 1, NoValue, EmptyRowVals, FALSE) IN
    IF rec.bad \/ rec.value = NoValue
    THEN [st EXCEPT !.panicked = TRUE,
                    !.intersection_value = rec.value,
                    !.intersection_row = rec.vals]
    ELSE [st EXCEPT !.intersection_value = rec.value,
                    !.intersection_row =
                        CarryInput(rec.vals, InputPeek(st.input).vals, outputs_selected),
                    !.intersection_multiplicity = 1]

\* Lines 494-505: whether the cartesian sub-executor is to be activated.
CartesianWanted(its, value) == \E i \in 1..Len(its) : PeeksValue(its[i], value)

\* An activation that does not return early for a single iterator.
MayActivateCartesianAlone(st) ==
    IF CartesianWanted(st.iterators, st.intersection_value)
    THEN [st EXCEPT !.cartesian_iterator =
              CartesianActivate(@, st.intersection_value, InputPeek(st.input).vals,
                                st.intersection_row, st.intersection_multiplicity,
                                st.iterators)]
    ELSE st

MayActivateCartesian(st) ==
    IF Len(st.iterators) = 1 THEN st
    ELSE IF CartesianWanted(st.iterators, st.intersection_value)
    THEN [st EXCEPT !.cartesian_iterator =
              CartesianActivate(@, st.intersection_value, InputPeek(st.input).vals,
                                st.intersection_row, st.intersection_multiplicity,
                                st.iterators)]
    ELSE st

\* A consumption that drops the input row after the one that is used up.
ConsumeInputTwo(st) ==
    LET st1 == [st EXCEPT !.input.idx = @ + 2] IN
    IF InputPeekSome(st1.input) THEN MayCreateIntersectionIterators(st1) ELSE st1

\* Lines 302-309: consume input rows until one opens iterators.
RECURSIVE ConsumeInput(_)
ConsumeInput(st) ==
    IF st.iterators # <<>> THEN st
    ELSE LET st1 == [st EXCEPT !.input.idx = @ + 1] IN
         IF InputPeekSome(st1.input)
         THEN ConsumeInput(MayCreateIntersectionIterators(st1))
         ELSE st1

\* Notes, for the properties below, the input row and the value at which
\* find_intersection succeeded and the tuple each iterator peeks there.
LogFound(st) ==
    [st EXCEPT !.found_log = Append(@,
        [row |-> st.input.idx,
         value |-> IF AllIteratorsIntersect(st.iterators)
                   THEN PeekKey(st.iterators[1]) ELSE NoValue,
         tuples |-> [i \in 1..Len(st.iterators) |->
                        IF HasPeek(st.iterators[i]) THEN PeekTuple(st.iterators[i])
                        ELSE <<NoValue, NoValue>>]])]

\* A compute_next_row that gives up at the end of an input row instead of
\* going on with the next one.
PlainNextRowOfOneInput(st) ==
    IF ~InputPeekSome(st.input) THEN [st |-> st, found |-> FALSE]
    ELSE With(FindIntersection(st.iterators), LAMBDA f :
           IF f.found
           THEN With(RecordIntersection(LogFound([st EXCEPT !.iterators = f.its])),
                     LAMBDA recorded :
                       IF recorded.panicked THEN [st |-> recorded, found |-> FALSE]
                       ELSE [st |-> MayActivateCartesian(
                                        AdvanceIntersectionIteratorsWithMultiplicity(recorded)),
                             found |-> TRUE])
           ELSE [st |-> ConsumeInput([st EXCEPT !.iterators = <<>>, !.cartesian_iterator = CartesianClear(@)]),
                 found |-> FALSE])

\* Lines 292-312: compute_next_row while the cartesian iterator is inactive.
RECURSIVE PlainNextRow(_)
PlainNextRow(st) ==
    IF ~InputPeekSome(st.input) THEN [st |-> st, found |-> FALSE]
    ELSE With(FindIntersection(st.iterators), LAMBDA f :
           IF f.found
           THEN With(RecordIntersection(LogFound([st EXCEPT !.iterators = f.its])),
                     LAMBDA recorded :
                       IF recorded.panicked THEN [st |-> recorded, found |-> FALSE]
                       ELSE [st |-> MayActivateCartesian(
                                        AdvanceIntersectionIteratorsWithMultiplicity(recorded)),
                             found |-> TRUE])
           ELSE PlainNextRow(ConsumeInput(
                    [st EXCEPT !.iterators = <<>>,
                               !.cartesian_iterator = CartesianClear(@)])))

\* An exhausted cartesian enumeration that leaves the first iterator where it is.
AdvanceWhileValueIsNot(it, value) == it

RECURSIVE AdvanceWhileValueIs(_, _)
AdvanceWhileValueIs(it, value) ==
    IF PeeksValue(it, value) THEN AdvanceWhileValueIs(AdvanceSingle(it), value) ELSE it

RECURSIVE ComputeNextRow(_)
ComputeNextRow(st) ==
    IF st.cartesian_iterator.is_active
    THEN With(CartesianFindNext(st.cartesian_iterator), LAMBDA next :
           IF next.found THEN [st |-> [st EXCEPT !.cartesian_iterator = next.cart], found |-> TRUE]
           ELSE IF st.iterators = <<>>
           THEN [st |-> [st EXCEPT !.cartesian_iterator = next.cart, !.panicked = TRUE],
                 found |-> FALSE]
           ELSE ComputeNextRow(
                    [st EXCEPT !.cartesian_iterator = next.cart,
                               !.iterators[1] = AdvanceWhileValueIs(@, st.intersection_value)]))
    ELSE PlainNextRow(st)

WriteNextRowInto(st) ==
    LET row == IF st.cartesian_iterator.is_active
               THEN CartesianWriteInto(st.cartesian_iterator, outputs_selected)
               ELSE [vals |-> [p \in 1..OutputWidth |->
                                  IF p \in outputs_selected THEN st.intersection_row[p]
                                  ELSE NoValue],
                     mult |-> st.intersection_multiplicity]
    IN  [vals |-> row.vals,
         mult |-> row.mult,
         prov |-> st.intersection_provenance,
         \* where the row comes from, for the properties below
         from_row |-> st.input.idx,
         at_value |-> st.intersection_value,
         cartesian |-> st.cartesian_iterator.is_active,
         tuples |-> IF st.found_log = <<>> THEN <<>>
                    ELSE st.found_log[Len(st.found_log)].tuples,
         indices |-> IF st.cartesian_iterator.is_active
                     THEN st.cartesian_iterator.cartesian_executor_indices ELSE <<>>]

\* A loop that computes the next row before it looks whether the batch has
\* room for it.
RECURSIVE FillBatchComputingFirst(_, _)
FillBatchComputingFirst(st, batch) ==
    With(ComputeNextRow(st), LAMBDA next :
      IF ~next.found \/ Len(batch) >= BatchRowsMax THEN [st |-> next.st, batch |-> batch]
      ELSE FillBatchComputingFirst(next.st, Append(batch, WriteNextRowInto(next.st))))

\* Lines 246-248: the loop that fills the batch.
RECURSIVE FillBatch(_, _)
FillBatch(st, batch) ==
    IF Len(batch) >= BatchRowsMax THEN [st |-> st, batch |-> batch]
    ELSE With(ComputeNextRow(st), LAMBDA next :
           IF next.found THEN FillBatch(next.st, Append(batch, WriteNextRowInto(next.st)))
           ELSE [st |-> next.st, batch |-> batch])

MayComputeNextBatch(st) ==
    With(ComputeNextRow(st), LAMBDA first :
      IF first.found THEN FillBatch(first.st, <<WriteNextRowInto(first.st)>>)
      ELSE [st |-> first.st, batch |-> <<>>])

IntersectionReset(st) == [st EXCEPT !.input = NoInput, !.iterators = <<>>]

IntersectionPrepare(st, input_batch) ==
    MayCreateIntersectionIterators(
        [st EXCEPT !.input = [present |-> TRUE, rows |-> input_batch, idx |-> 1]])

\* ------------------------------------------------------------- the system
\* The rows a batch is made of: one of multiplicity 1 and one of multiplicity 2,
\* binding the input variable to different values.
InputRows == {[vals |-> <<1>>, mult |-> 1, prov |-> 1], [vals |-> <<2>>, mult |-> 2, prov |-> 2]}

Batches == UNION {[1..len -> InputRows] : len \in 1..MaxInputRows}

Visible(row) == [vals |-> row.vals, mult |-> row.mult, prov |-> row.prov]

Init ==
    /\ instruction_count \in 1..MaxExec
    /\ \/ \E nk \in 1..MaxKey :
             /\ instruction_count * nk <= MaxCells
             /\ store \in [1..instruction_count -> DataOptions(nk, KeyPatterns)]
       \/ \E nk \in 1..MaxPlainKey :
             /\ instruction_count * nk <= MaxPlainCells
             /\ store \in [1..instruction_count -> DataOptions(nk, PlainPatterns)]
    /\ outputs_selected = 1..OutputWidth
    /\ ex = IntersectionExecutorNew
    /\ out = <<>>
    /\ returned = "new"
    /\ batch_in = <<>>
    /\ resets = 0
    /\ replay = FALSE
    /\ planner = PlannerIdle
    /\ imm = ImmediateIdle
    /\ disjunction = DisjunctionIdle

\* IntersectionExecutor::prepare, called once the previous input is used up.
Prepare ==
    /\ ~ex.panicked
    /\ ~InputPeekSome(ex.input)
    /\ \E input_batch \in Batches :
          /\ ex' = [IntersectionPrepare(ex, input_batch) EXCEPT !.found_log = <<>>]
          /\ batch_in' = input_batch
    /\ out' = <<>>
    /\ returned' = "prepared"
    /\ replay' = (returned = "reset")
    /\ UNCHANGED <<instruction_count, store, outputs_selected, resets, planner, imm, disjunction>>

\* IntersectionExecutor::batch_continue
BatchContinue ==
    /\ ~ex.panicked
    /\ ex.input.present
    /\ \E result \in {MayComputeNextBatch(ex)} :
          /\ ex' = result.st
          /\ out' = IF result.st.panicked THEN out ELSE out \o result.batch
          /\ returned' = IF result.st.panicked THEN "panic"
                         ELSE IF result.batch = <<>> THEN "none" ELSE "batch"
    /\ UNCHANGED <<instruction_count, store, outputs_selected, batch_in, resets, replay, planner, imm, disjunction>>

\* IntersectionExecutor::reset
Reset ==
    /\ ~ex.panicked
    /\ resets < MaxResets
    /\ ex' = IntersectionReset(ex)
    /\ returned' = "reset"
    /\ resets' = resets + 1
    /\ UNCHANGED <<instruction_count, store, outputs_selected, out, batch_in, replay, planner, imm, disjunction>>

\* prepare as the caller of a step uses it: for the next input batch, once
\* batch_continue has returned None for the one before.
PrepareWhenDone == returned \in {"new", "none"} /\ Prepare

NextDrain == PrepareWhenDone \/ BatchContinue

\* batch_continue has not yet returned None for the prepared input: a call of
\* it is enabled and changes the state.
Pending == returned \in {"prepared", "batch"}

\* The executor driven by a caller that keeps calling batch_continue until it
\* returns None: weak fairness of BatchContinue, its enabling condition being
\* written out as Pending.
SpecDrain == Init /\ [][NextDrain]_vars /\ ([]<>(~Pending) \/ []<><<BatchContinue>>_vars)

\* A value that an earlier stage left at a position this step writes again.
StaleValue == 9

\* Input rows that are wider than the input variable: the position of the sort
\* variable is re-used, and is empty or still holds the earlier stage's value.
WideInputRows == {[vals |-> <<1, sort>>, mult |-> 1, prov |-> 1] : sort \in {NoValue, StaleValue}}

WideBatches == UNION {[1..len -> WideInputRows] : len \in 1..MaxInputRows}

\* A step that selects any subset of its positions.
InitSelect ==
    /\ instruction_count \in 1..MaxSelectExec
    /\ store \in [1..instruction_count -> DataOptions(1, KeyPatterns)]
    /\ outputs_selected \in SUBSET (1..OutputWidth)
    /\ ex = IntersectionExecutorNew
    /\ out = <<>>
    /\ returned = "new"
    /\ batch_in = <<>>
    /\ resets = 0
    /\ replay = FALSE
    /\ planner = PlannerIdle
    /\ imm = ImmediateIdle
    /\ disjunction = DisjunctionIdle

\* IntersectionExecutor::prepare with a batch of wide rows.
PrepareWide ==
    /\ ~ex.panicked
    /\ ~InputPeekSome(ex.input)
    /\ \E input_batch \in WideBatches :
          /\ ex' = [IntersectionPrepare(ex, input_batch) EXCEPT !.found_log = <<>>]
          /\ batch_in' = input_batch
    /\ out' = <<>>
    /\ returned' = "prepared"
    /\ replay' = FALSE
    /\ UNCHANGED <<instruction_count, store, outputs_selected, resets, planner, imm, disjunction>>

Next == Prepare \/ BatchContinue

NextReset == Prepare \/ BatchContinue \/ Reset

NextSelect == PrepareWide \/ BatchContinue

\* A freshly constructed executor driven by prepare and batch_continue.
Spec == Init /\ [][Next]_vars

\* The same executor when the caller may also reset it at any time.
SpecReset == Init /\ [][NextReset]_vars

\* The executor of a step with a selection, given rows that re-use positions.
SpecSelect == InitSelect /\ [][NextSelect]_vars

\* ---------------------------------------------------------------- the planner
\* compiler/executable/match_/planner/plan.rs.  Costs are fixed-point numbers:
\* CostUnit stands for the cost 1.0.
MaxPatterns == 3    \* pattern vertices of a planned conjunction
MaxWidePatterns == 4   \* pattern vertices of a conjunction with two checks to stash

CostUnit == 100
MAX_BEAM_WIDTH == 96
AVERAGE_QUERY_OUTPUT_SIZE == 1
AVERAGE_STEP_COST == CostUnit
\* 1.0 - VARIABLE_PRODUCTION_ADVANTAGE, in percent
VariableProductionRemainder == 95
BEAM_REDUCTION_CYCLE == 2
EXTENSION_REDUCTION_CYCLE == 2

\* Cost::TRIVIAL_COST, the cost of a check on bound variables
TRIVIAL_COST == 1
\* the cost value of Cost::INFINITY
InfiniteCost == 1000000
\* the cost of a constraint both of whose variables are bound
BoundCheckCost == 10
\* restricted_expected_output_size of a join variable
JoinKeySize == 2

\* Option::None of a VariableVertexId or PatternVertexId
NoVertex == 0

MinOf(a, b) == IF a <= b THEN a ELSE b
MaxOf(a, b) == IF a >= b THEN a ELSE b

MakeCost(c, r) == [cost |-> c, io_ratio |-> r]
NOOP == MakeCost(0, 1)
INFINITY == MakeCost(InfiniteCost, 1)
\* Cost::chain: sequential composition
Chain(a, b) == MakeCost(MinOf(a.cost + a.io_ratio * b.cost, InfiniteCost), a.io_ratio * b.io_ratio)
\* Cost::join: a merge on a key of the given cardinality
Join(a, b, key_size) == MakeCost(a.cost + b.cost, MaxOf((a.io_ratio * b.io_ratio) \div key_size, 1))
\* Cost::is_trivial
CostIsTrivial(c) == c.cost <= TRIVIAL_COST

\* VertexId::Variable and VertexId::Pattern
VariableId(v) == <<"variable", v>>
PatternId(p) == <<"pattern", p>>

\* The pattern vertices a graph is built from: constraints on two variables that
\* can be traversed in both directions, comparisons that need their variables
\* bound, and an expression assigning variable 3 from variable 1.
ConstraintVertex(lhs, rhs, size) == [kind |-> "constraint", vars |-> <<lhs, rhs>>, size |-> size]
ComparisonVertex(variables) == [kind |-> "comparison", vars |-> variables, size |-> 1]
ExpressionVertex(output, input) == [kind |-> "expression", vars |-> <<output, input>>, size |-> 1]
PlannerVertices ==
    <<ConstraintVertex(1, 2, 1), ConstraintVertex(1, 2, 3), ConstraintVertex(2, 3, 1), ConstraintVertex(2, 3, 3),
      ConstraintVertex(1, 3, 1), ConstraintVertex(1, 3, 3), ComparisonVertex(<<2>>), ComparisonVertex(<<1, 3>>),
      ExpressionVertex(3, 1)>>

RECURSIVE AscendingSeq(_)
AscendingSeq(set) ==
    IF set = {} THEN <<>>
    ELSE <<CHOOSE x \in set : \A y \in set : x <= y>> \o AscendingSeq(set \ {CHOOSE x \in set : \A y \in set : x <= y})

\* The graph of a conjunction: its patterns get the ids 1..n.
GraphOf(chosen, input_variables) == [elements |-> [i \in DOMAIN chosen |-> PlannerVertices[chosen[i]]], input_variables |-> input_variables]

\* The graphs: up to MaxPatterns different pattern vertices, and the input variables.
Graphs == {GraphOf(AscendingSeq(chosen), input_variables) : chosen \in {c \in SUBSET DOMAIN PlannerVertices : Cardinality(c) \in 0..MaxPatterns}, input_variables \in {{}, {1}}}

\* The graphs of MaxWidePatterns pattern vertices that hold both comparisons.
WideGraphs == {GraphOf(AscendingSeq(chosen), input_variables) : chosen \in {c \in SUBSET DOMAIN PlannerVertices : Cardinality(c) = MaxWidePatterns /\ \A v \in DOMAIN PlannerVertices : PlannerVertices[v].kind = "comparison" => v \in c}, input_variables \in {{}, {1}}}

NumPatterns(graph) == Len(graph.elements)
\* Graph::pattern_to_variable.keys()
SearchPatterns(graph) == 1..NumPatterns(graph)
\* PlannerVertex::variables
VariablesOf(graph, pattern) == {graph.elements[pattern].vars[i] : i \in DOMAIN graph.elements[pattern].vars}
GraphVariables(graph) == graph.input_variables \cup UNION {VariablesOf(graph, p) : p \in SearchPatterns(graph)}
\* PlannerVertex::is_constraint
IsConstraint(graph, pattern) == graph.elements[pattern].kind = "constraint"
\* PlannerVertex::can_be_trivial
CanBeTrivial(graph, pattern) == graph.elements[pattern].kind = "comparison"
\* PlannerVertex::is_valid: the required inputs are available
IsValid(graph, pattern, available) ==
    CASE graph.elements[pattern].kind = "constraint" -> TRUE
      [] graph.elements[pattern].kind = "comparison" -> VariablesOf(graph, pattern) \subseteq available
      [] graph.elements[pattern].kind = "expression" -> graph.elements[pattern].vars[2] \in available
\* ConstraintVertex::can_join_on
CanJoinOn(graph, pattern, var) == var \in VariablesOf(graph, pattern)

\* The direction a constraint is traversed in when none is forced: from a bound
\* side if there is one.
CheaperDirection(vertex, input_vars) ==
    IF vertex.vars[1] \in input_vars THEN "canonical"
    ELSE IF vertex.vars[2] \in input_vars THEN "reverse" ELSE "canonical"

\* The cost of traversing a constraint from one variable to the other.
TraversalCost(vertex, from, to, input_vars) ==
    IF from \in input_vars
    THEN IF to \in input_vars THEN MakeCost(BoundCheckCost, 1) ELSE MakeCost(CostUnit, vertex.size)
    ELSE MakeCost(CostUnit * vertex.size, vertex.size)

ConstraintCostIn(vertex, direction, input_vars) ==
    IF direction = "canonical"
    THEN [cost |-> TraversalCost(vertex, vertex.vars[1], vertex.vars[2], input_vars), meta |-> "canonical"]
    ELSE [cost |-> TraversalCost(vertex, vertex.vars[2], vertex.vars[1], input_vars), meta |-> "reverse"]

\* PlannerVertex::cost_and_metadata; fixed_direction is "none" when not forced.
CostAndMetadata(graph, pattern, input_vars, fixed_direction) ==
    CASE graph.elements[pattern].kind = "comparison" -> [cost |-> MakeCost(TRIVIAL_COST, 1), meta |-> "none"]
      [] graph.elements[pattern].kind = "expression" -> [cost |-> MakeCost(CostUnit, 1), meta |-> "none"]
      [] graph.elements[pattern].kind = "constraint" ->
            ConstraintCostIn(graph.elements[pattern],
                             IF fixed_direction = "none"
                             THEN CheaperDirection(graph.elements[pattern], input_vars)
                             ELSE fixed_direction,
                             input_vars)

\* ConstraintVertex::direction_from_join_var: traverse from the join variable.
DirectionFromJoinVar(graph, pattern, join_var) ==
    IF graph.elements[pattern].vars[1] = join_var THEN "canonical" ELSE "reverse"

\* A variable bound before the ongoing step began.
BoundBeforeStep(var, step_produced_vars, all_produced_vars) ==
    var \in all_produced_vars /\ var \notin step_produced_vars

\* ConstraintVertex::join_from_direction_and_inputs: the variable a constraint
\* is sorted on, the first unbound one in the order of its direction.
JoinFromDirectionAndInputs(vertex, direction, step_produced_vars, all_produced_vars) ==
    IF ~BoundBeforeStep(vertex.vars[IF direction = "canonical" THEN 1 ELSE 2], step_produced_vars, all_produced_vars)
    THEN vertex.vars[IF direction = "canonical" THEN 1 ELSE 2]
    ELSE IF ~BoundBeforeStep(vertex.vars[IF direction = "canonical" THEN 2 ELSE 1], step_produced_vars, all_produced_vars)
    THEN vertex.vars[IF direction = "canonical" THEN 2 ELSE 1]
    ELSE NoVertex

\* The elements of a sequence.
RangeOf(seq) == {seq[i] : i \in DOMAIN seq}

\* The members of a set in the order hash iteration visits them: order lists
\* every id once, and stands for the iteration order of the hash set.
IterateSet(set, order) == SelectSeq(order, LAMBDA x : x \in set)

\* The variables of a vertex ordering.
OrderedVariables(vertex_ordering) == {vertex_ordering[i][2] : i \in {j \in DOMAIN vertex_ordering : vertex_ordering[j][1] = "variable"}}
\* The patterns of a vertex ordering.
OrderedPatterns(vertex_ordering) == {vertex_ordering[i][2] : i \in {j \in DOMAIN vertex_ordering : vertex_ordering[j][1] = "pattern"}}

\* A first plan whose ordering leaves the input variables out.
PartialCostPlanWithoutInputs(remaining_patterns, inputs) ==
    [vertex_ordering |-> <<>>,
     pattern_metadata |-> [p \in {} |-> "none"],
     all_produced_vars |-> RangeOf(inputs),
     cumulative_cost |-> NOOP,
     remaining_patterns |-> remaining_patterns,
     ongoing_step |-> {},
     ongoing_step_stash |-> <<>>,
     ongoing_step_cost |-> NOOP,
     ongoing_step_produced_vars |-> {},
     ongoing_step_stash_produced_vars |-> {},
     ongoing_step_join_var |-> NoVertex,
     heuristic |-> INFINITY]

\* PartialCostPlan::new
PartialCostPlanNew(remaining_patterns, inputs) ==
    [vertex_ordering |-> [i \in DOMAIN inputs |-> VariableId(inputs[i])],
     pattern_metadata |-> [p \in {} |-> "none"],
     all_produced_vars |-> RangeOf(inputs),
     cumulative_cost |-> NOOP,
     remaining_patterns |-> remaining_patterns,
     ongoing_step |-> {},
     ongoing_step_stash |-> <<>>,
     ongoing_step_cost |-> NOOP,
     ongoing_step_produced_vars |-> {},
     ongoing_step_stash_produced_vars |-> {},
     ongoing_step_join_var |-> NoVertex,
     heuristic |-> INFINITY]

\* HashMap::insert
MapInsert(map, key, value) == [k \in DOMAIN map \cup {key} |-> IF k = key THEN value ELSE map[k]]

\* The candidate join variables of determine_joinability.
CandidateJoinVars(graph, plan, pattern) ==
    {var \in VariablesOf(graph, pattern) : var \in plan.ongoing_step_produced_vars /\ CanJoinOn(graph, pattern, var)}

\* The last condition of determine_joinability.
JoinsOn(graph, plan, prev_pattern, candidate_join_var) ==
    \/ /\ plan.ongoing_step_join_var = NoVertex
       /\ candidate_join_var = JoinFromDirectionAndInputs(graph.elements[prev_pattern], plan.pattern_metadata[prev_pattern], plan.ongoing_step_produced_vars, plan.all_produced_vars)
    \/ plan.ongoing_step_join_var = candidate_join_var

\* PartialCostPlan::determine_joinability; prev_pattern is the member of the
\* ongoing step that iteration yields first, NoVertex if the step is empty.
DetermineJoinability(graph, plan, pattern, prev_pattern) ==
    IF prev_pattern = NoVertex THEN NoVertex
    ELSE IF ~IsConstraint(graph, prev_pattern) \/ ~IsConstraint(graph, pattern) THEN NoVertex
    ELSE IF Cardinality(CandidateJoinVars(graph, plan, pattern)) # 1 THEN NoVertex
    ELSE IF prev_pattern \notin DOMAIN plan.pattern_metadata THEN NoVertex
    ELSE IF plan.pattern_metadata[prev_pattern] = "none" THEN NoVertex
    ELSE IF JoinsOn(graph, plan, prev_pattern, CHOOSE var \in CandidateJoinVars(graph, plan, pattern) : TRUE)
    THEN CHOOSE var \in CandidateJoinVars(graph, plan, pattern) : TRUE
    ELSE NoVertex

\* The join arm of compute_added_cost.
JoinedCost(plan, constraint) ==
    [cost |-> Join(plan.ongoing_step_cost, constraint.cost, JoinKeySize), meta |-> constraint.meta]

\* PartialCostPlan::compute_added_cost
ComputeAddedCost(graph, plan, pattern, input_vars, join_var) ==
    IF IsConstraint(graph, pattern) /\ join_var # NoVertex
    THEN JoinedCost(plan, CostAndMetadata(graph, pattern, input_vars, DirectionFromJoinVar(graph, pattern, join_var)))
    ELSE CostAndMetadata(graph, pattern, input_vars, "none")

\* (1.0 - VARIABLE_PRODUCTION_ADVANTAGE).powi(n), times CostUnit
RECURSIVE AdvantagePower(_)
AdvantagePower(n) == IF n = 0 THEN CostUnit ELSE (AdvantagePower(n - 1) * VariableProductionRemainder) \div 100

\* PartialCostPlan::heuristic_plan_completion_cost
HeuristicPlanCompletionCost(graph, plan, pattern) ==
    IF Cardinality(plan.remaining_patterns) = 1 THEN NOOP
    ELSE MakeCost((AVERAGE_STEP_COST * Cardinality(plan.remaining_patterns)
                     * AdvantagePower(Cardinality(plan.all_produced_vars)
                                      + Cardinality(plan.ongoing_step_produced_vars)
                                      + Cardinality(VariablesOf(graph, pattern) \ (plan.ongoing_step_produced_vars \cup plan.all_produced_vars))))
                  \div CostUnit,
                  AVERAGE_QUERY_OUTPUT_SIZE)

\* all_available_vars of extensions_iter
AllAvailableVars(plan) ==
    OrderedVariables(plan.vertex_ordering) \cup plan.ongoing_step_produced_vars \cup plan.ongoing_step_stash_produced_vars

\* cost_before_extension of extensions_iter
CostBeforeExtension(plan, join_var) ==
    IF join_var = NoVertex THEN Chain(plan.cumulative_cost, plan.ongoing_step_cost) ELSE plan.cumulative_cost

\* The StepExtension built by the closure of extensions_iter.
MakeExtension(graph, plan, extension, join_var, added) ==
    [pattern_id |-> extension,
     pattern_metadata |-> added.meta,
     step_cost |-> added.cost,
     step_join_var |-> join_var,
     heuristic |-> Chain(Chain(CostBeforeExtension(plan, join_var), added.cost), HeuristicPlanCompletionCost(graph, plan, extension))]

StepExtensionOf(graph, plan, extension, join_var) ==
    MakeExtension(graph, plan, extension, join_var,
                  ComputeAddedCost(graph, plan, extension,
                                   IF join_var = NoVertex THEN AllAvailableVars(plan) ELSE OrderedVariables(plan.vertex_ordering),
                                   join_var))

\* The extensions of one remaining pattern, flat_map of extensions_iter.
ExtensionsOfPattern(graph, plan, extension, join_var) ==
    IF join_var = NoVertex
    THEN <<StepExtensionOf(graph, plan, extension, NoVertex)>>
    ELSE <<StepExtensionOf(graph, plan, extension, NoVertex), StepExtensionOf(graph, plan, extension, join_var)>>

RECURSIVE FlatMapExtensions(_, _, _, _)
FlatMapExtensions(graph, plan, patterns, prev_pattern) ==
    IF patterns = <<>> THEN <<>>
    ELSE ExtensionsOfPattern(graph, plan, Head(patterns), DetermineJoinability(graph, plan, Head(patterns), prev_pattern))
         \o FlatMapExtensions(graph, plan, Tail(patterns), prev_pattern)

\* extensions_iter that also extends with patterns whose inputs are missing.
ExtensionsOfAnyPattern(graph, plan, pattern_order) ==
    FlatMapExtensions(graph, plan, IterateSet(plan.remaining_patterns, pattern_order),
                      IF plan.ongoing_step = {} THEN NoVertex ELSE Head(IterateSet(plan.ongoing_step, pattern_order)))

\* PartialCostPlan::extensions_iter: the extensions in the order the remaining
\* patterns are iterated in.
ExtensionsIter(graph, plan, pattern_order) ==
    FlatMapExtensions(graph, plan,
                      SelectSeq(IterateSet(plan.remaining_patterns, pattern_order), LAMBDA p : IsValid(graph, p, AllAvailableVars(plan))),
                      IF plan.ongoing_step = {} THEN NoVertex ELSE Head(IterateSet(plan.ongoing_step, pattern_order)))

\* StepExtension::is_trivial
ExtensionIsTrivial(graph, extension) == CanBeTrivial(graph, extension.pattern_id) /\ CostIsTrivial(extension.step_cost)

\* add_to_stash that forgets the join variable of the ongoing step.
AddToStashClearsJoinVar(graph, plan, pattern) ==
    [plan EXCEPT !.ongoing_step_stash = Append(@, pattern),
                 !.remaining_patterns = @ \ {pattern},
                 !.pattern_metadata = MapInsert(@, pattern, "none"),
                 !.ongoing_step_stash_produced_vars = @ \cup VariablesOf(graph, pattern),
                 !.ongoing_step_join_var = NoVertex]

\* add_to_stash that leaves the pattern among the remaining ones.
AddToStashKeepRemaining(graph, plan, pattern) ==
    [plan EXCEPT !.ongoing_step_stash = Append(@, pattern),
                 !.pattern_metadata = MapInsert(@, pattern, "none"),
                 !.ongoing_step_stash_produced_vars = @ \cup VariablesOf(graph, pattern)]

\* PartialCostPlan::add_to_stash
AddToStash(graph, plan, pattern) ==
    [plan EXCEPT !.ongoing_step_stash = Append(@, pattern),
                 !.remaining_patterns = @ \ {pattern},
                 !.pattern_metadata = MapInsert(@, pattern, "none"),
                 !.ongoing_step_stash_produced_vars = @ \cup VariablesOf(graph, pattern)]

\* The variables of the ongoing step in the order the hash set yields them, the
\* join variable not being put first.
StepVariablesAsIterated(plan, variable_order) ==
    SelectSeq(IterateSet(plan.ongoing_step_produced_vars, variable_order), LAMBDA var : VariableId(var) \notin RangeOf(plan.vertex_ordering))

\* The variables of the ongoing step as finalize_current_step appends them.
StepVariables(plan, variable_order) ==
    (IF plan.ongoing_step_join_var # NoVertex THEN <<plan.ongoing_step_join_var>> ELSE <<>>)
    \o SelectSeq(IterateSet(plan.ongoing_step_produced_vars, variable_order),
                 LAMBDA var : var # plan.ongoing_step_join_var /\ VariableId(var) \notin RangeOf(plan.vertex_ordering))

\* The variables a pattern of the stash appends to the step.
StashVariables(graph, plan, pattern, current_step) ==
    SelectSeq(graph.elements[pattern].vars,
              LAMBDA var : var \notin plan.all_produced_vars /\ VariableId(var) \notin RangeOf(current_step))

VariableIds(variables) == [i \in DOMAIN variables |-> VariableId(variables[i])]
PatternIds(patterns) == [i \in DOMAIN patterns |-> PatternId(patterns[i])]

\* The loop over the stash in finalize_current_step.
RECURSIVE FinalizeStash(_, _, _, _)
FinalizeStash(graph, plan, stash, result) ==
    IF stash = <<>> THEN result
    ELSE FinalizeStash(graph, plan, Tail(stash),
                       [current_step |-> result.current_step \o <<PatternId(Head(stash))>>
                                             \o VariableIds(StashVariables(graph, plan, Head(stash), result.current_step)),
                        current_stash_produced_vars |-> result.current_stash_produced_vars
                                             \cup RangeOf(StashVariables(graph, plan, Head(stash), result.current_step))])

\* PartialCostPlan::finalize_current_step
FinalizeCurrentStep(graph, plan, pattern_order, variable_order) ==
    FinalizeStash(graph, plan, plan.ongoing_step_stash,
                  [current_step |-> PatternIds(IterateSet(plan.ongoing_step, pattern_order)) \o VariableIds(StepVariables(plan, variable_order)),
                   current_stash_produced_vars |-> {}])

\* The variables of a pattern that no earlier step produced.
NewlyProducedVars(graph, plan, pattern) == VariablesOf(graph, pattern) \ plan.all_produced_vars

\* A continued step that leaves the pattern among the remaining ones.
ContinuedStepKeepRemaining(graph, plan, extension) ==
    [plan EXCEPT !.pattern_metadata = MapInsert(@, extension.pattern_id, extension.pattern_metadata),
                 !.ongoing_step = @ \cup {extension.pattern_id},
                 !.ongoing_step_cost = extension.step_cost,
                 !.ongoing_step_produced_vars = @ \cup NewlyProducedVars(graph, plan, extension.pattern_id),
                 !.ongoing_step_join_var = extension.step_join_var,
                 !.heuristic = extension.heuristic,
                 !.all_produced_vars = @ \cup plan.ongoing_step_produced_vars \cup NewlyProducedVars(graph, plan, extension.pattern_id)]

\* PartialCostPlan::clone_and_extend_with_continued_step
CloneAndExtendWithContinuedStep(graph, plan, extension) ==
    [vertex_ordering |-> plan.vertex_ordering,
     pattern_metadata |-> MapInsert(plan.pattern_metadata, extension.pattern_id, extension.pattern_metadata),
     remaining_patterns |-> plan.remaining_patterns \ {extension.pattern_id},
     cumulative_cost |-> plan.cumulative_cost,
     ongoing_step |-> plan.ongoing_step \cup {extension.pattern_id},
     ongoing_step_stash |-> plan.ongoing_step_stash,
     ongoing_step_cost |-> extension.step_cost,
     ongoing_step_produced_vars |-> plan.ongoing_step_produced_vars \cup NewlyProducedVars(graph, plan, extension.pattern_id),
     ongoing_step_stash_produced_vars |-> plan.ongoing_step_stash_produced_vars,
     ongoing_step_join_var |-> extension.step_join_var,
     heuristic |-> extension.heuristic,
     all_produced_vars |-> plan.all_produced_vars \cup plan.ongoing_step_produced_vars \cup NewlyProducedVars(graph, plan, extension.pattern_id)]

\* The cost of a plan once its ongoing step and stash are closed.
CostWithStepClosed(plan) ==
    Chain(Chain(plan.cumulative_cost, plan.ongoing_step_cost), MakeCost(Len(plan.ongoing_step_stash) * TRIVIAL_COST, 1))

\* A new step that keeps the join variable of the step it closes.
NewStepPlanKeepsJoinVar(graph, plan, extension, finalized) ==
    [vertex_ordering |-> plan.vertex_ordering \o finalized.current_step,
     cumulative_cost |-> CostWithStepClosed(plan),
     ongoing_step |-> {extension.pattern_id},
     ongoing_step_stash |-> <<>>,
     ongoing_step_cost |-> extension.step_cost,
     ongoing_step_produced_vars |-> NewlyProducedVars(graph, plan, extension.pattern_id),
     ongoing_step_stash_produced_vars |-> {},
     ongoing_step_join_var |-> plan.ongoing_step_join_var,
     all_produced_vars |-> plan.all_produced_vars \cup finalized.current_stash_produced_vars \cup NewlyProducedVars(graph, plan, extension.pattern_id),
     pattern_metadata |-> MapInsert(plan.pattern_metadata, extension.pattern_id, extension.pattern_metadata),
     remaining_patterns |-> plan.remaining_patterns \ {extension.pattern_id},
     heuristic |-> extension.heuristic]

\* The plan clone_and_extend_with_new_step builds from the finalized step.
NewStepPlan(graph, plan, extension, finalized) ==
    [vertex_ordering |-> plan.vertex_ordering \o finalized.current_step,
     cumulative_cost |-> CostWithStepClosed(plan),
     ongoing_step |-> {extension.pattern_id},
     ongoing_step_stash |-> <<>>,
     ongoing_step_cost |-> extension.step_cost,
     ongoing_step_produced_vars |-> NewlyProducedVars(graph, plan, extension.pattern_id),
     ongoing_step_stash_produced_vars |-> {},
     ongoing_step_join_var |-> NoVertex,
     all_produced_vars |-> plan.all_produced_vars \cup finalized.current_stash_produced_vars \cup NewlyProducedVars(graph, plan, extension.pattern_id),
     pattern_metadata |-> MapInsert(plan.pattern_metadata, extension.pattern_id, extension.pattern_metadata),
     remaining_patterns |-> plan.remaining_patterns \ {extension.pattern_id},
     heuristic |-> extension.heuristic]

\* PartialCostPlan::clone_and_extend_with_new_step
CloneAndExtendWithNewStep(graph, plan, extension, pattern_order, variable_order) ==
    NewStepPlan(graph, plan, extension, FinalizeCurrentStep(graph, plan, pattern_order, variable_order))

\* extend_with that lets every constraint continue the ongoing step.
ContinuesAlways(plan, extension) == TRUE

\* The condition of extend_with under which a constraint continues the step.
ContinuesStep(plan, extension) ==
    /\ extension.step_join_var # NoVertex
    /\ plan.ongoing_step_join_var = NoVertex \/ plan.ongoing_step_join_var = extension.step_join_var

\* extend_with that lets an extension that is not a constraint continue the
\* ongoing step.
ExtendWithContinuing(graph, plan, extension, pattern_order, variable_order) ==
    IF ExtensionIsTrivial(graph, extension) THEN AddToStash(graph, plan, extension.pattern_id)
    ELSE IF ContinuesStep(plan, extension) \/ ~IsConstraint(graph, extension.pattern_id) THEN CloneAndExtendWithContinuedStep(graph, plan, extension)
    ELSE CloneAndExtendWithNewStep(graph, plan, extension, pattern_order, variable_order)

\* PartialCostPlan::extend_with
ExtendWith(graph, plan, extension, pattern_order, variable_order) ==
    IF ExtensionIsTrivial(graph, extension) THEN AddToStash(graph, plan, extension.pattern_id)
    ELSE IF ~IsConstraint(graph, extension.pattern_id) THEN CloneAndExtendWithNewStep(graph, plan, extension, pattern_order, variable_order)
    ELSE IF ContinuesStep(plan, extension) THEN CloneAndExtendWithContinuedStep(graph, plan, extension)
    ELSE CloneAndExtendWithNewStep(graph, plan, extension, pattern_order, variable_order)

\* PartialCostPlan::into_complete_plan
IntoCompletePlan(graph, plan, pattern_order, variable_order) ==
    [vertex_ordering |-> plan.vertex_ordering \o FinalizeCurrentStep(graph, plan, pattern_order, variable_order).current_step,
     pattern_metadata |-> plan.pattern_metadata,
     cumulative_cost |-> CostWithStepClosed(plan)]

\* PartialCostPlan::hash
PlanHash(plan) ==
    [n_remaining_patterns |-> Cardinality(plan.remaining_patterns),
     planned_patterns |-> OrderedPatterns(plan.vertex_ordering),
     ongoing_step_join_var |-> plan.ongoing_step_join_var,
     ongoing_non_trivial_patterns |-> plan.ongoing_step]

\* ------------------------------------------------------------- beam search
\* The sequences that list every member of a set once: the orders in which a
\* hash set may be iterated.
Orders(set) == {order \in [1..Cardinality(set) -> set] : \A i, j \in 1..Cardinality(set) : order[i] = order[j] => i = j}

\* The orders in which the hash set of variables is iterated.
VariableOrders(set) == {AscendingSeq(set), [i \in 1..Cardinality(set) |-> AscendingSeq(set)[Cardinality(set) + 1 - i]]}

ReverseSeq(seq) == [i \in DOMAIN seq |-> seq[Len(seq) + 1 - i]]

\* How a BinaryHeap orders entries that compare equal: as pushed, or reversed.
TieBreaks == {"first", "last"}

InsertAt(sorted, entry, pos) == SubSeq(sorted, 1, pos) \o <<entry>> \o SubSeq(sorted, pos + 1, Len(sorted))
InsertByKey(sorted, entry) == InsertAt(sorted, entry, Cardinality({i \in DOMAIN sorted : sorted[i].key <= entry.key}))

RECURSIVE SortInto(_, _)
SortInto(sorted, rest) == IF rest = <<>> THEN sorted ELSE SortInto(InsertByKey(sorted, Head(rest)), Tail(rest))

\* drain_sorted of a heap of Reverse(..): ascending by the key, entries of equal
\* key in the order the tie-break gives.
DrainSorted(entries, ties) == SortInto(<<>>, IF ties = "first" THEN entries ELSE ReverseSeq(entries))

\* Ord for StepExtension: the heuristic cost, then the pattern id.
ExtensionKey(extension) == extension.heuristic.cost * (MaxPatterns + 2) + extension.pattern_id
\* Ord for PartialCostPlan: the heuristic cost.
PlanKey(plan) == plan.heuristic.cost

Keyed(items, key(_)) == [i \in DOMAIN items |-> [key |-> key(items[i]), item |-> items[i]]]
Items(entries) == [i \in DOMAIN entries |-> entries[i].item]

\* An extension heap that keeps what was pushed before a trivial extension.
ExtensionHeapKeepsAll(graph, extensions) == extensions

\* The extension heap after the loop over extensions_iter: a trivial extension
\* clears the heap and ends the loop.
ExtensionHeap(graph, extensions) ==
    IF \E i \in DOMAIN extensions : ExtensionIsTrivial(graph, extensions[i])
    THEN <<extensions[CHOOSE i \in DOMAIN extensions : /\ ExtensionIsTrivial(graph, extensions[i])
                                                       /\ \A j \in 1..(i - 1) : ~ExtensionIsTrivial(graph, extensions[j])]>>
    ELSE extensions

Take(seq, n) == SubSeq(seq, 1, MinOf(n, Len(seq)))

\* The extensions of a plan that are applied: the best extension_width ones.
KeptExtensions(graph, plan, pattern_order, ties, extension_width) ==
    Take(Items(DrainSorted(Keyed(ExtensionHeap(graph, ExtensionsIter(graph, plan, pattern_order)), ExtensionKey), ties)), extension_width)

RECURSIVE ExtendAll(_, _, _, _, _)
ExtendAll(graph, plan, extensions, pattern_order, variable_order) ==
    IF extensions = <<>> THEN <<>>
    ELSE <<ExtendWith(graph, plan, Head(extensions), pattern_order, variable_order)>>
         \o ExtendAll(graph, plan, Tail(extensions), pattern_order, variable_order)

\* The plans pushed onto new_plans_heap, in the order they are pushed.
RECURSIVE NewPlans(_, _, _, _, _, _)
NewPlans(graph, plans, pattern_order, variable_order, ties, extension_width) ==
    IF plans = <<>> THEN <<>>
    ELSE ExtendAll(graph, Head(plans), KeptExtensions(graph, Head(plans), pattern_order, ties, extension_width), pattern_order, variable_order)
         \o NewPlans(graph, Tail(plans), pattern_order, variable_order, ties, extension_width)

\* The loop picking the best beam_width plans without looking at their hash.
PickBestOfAnyHash(sorted, picked, beam_width) == Take(sorted, beam_width)

\* The loop that picks the best beam_width plans of distinct hash.
RECURSIVE PickBest(_, _, _)
PickBest(sorted, picked, beam_width) ==
    IF sorted = <<>> \/ Len(picked) >= beam_width THEN picked
    ELSE IF PlanHash(Head(sorted)) \in {PlanHash(picked[i]) : i \in DOMAIN picked} THEN PickBest(Tail(sorted), picked, beam_width)
    ELSE PickBest(Tail(sorted), Append(picked, Head(sorted)), beam_width)

\* beam_width and extension_width at the start of iteration i
NarrowedWidth(width, i, cycle) == IF i % cycle = 0 THEN MaxOf(MaxOf(width - 1, 0), 2) ELSE width

Clamp(value, low, high) == MaxOf(low, MinOf(value, high))

NoStep == [kind |-> "none", sort_variable |-> NoVertex, instructions |-> <<>>, checks |-> <<>>]

\* The builder before lowering has begun.
NotLowering == [position |-> 0, selected_variables |-> {}, current |-> NoStep, steps |-> <<>>, produced_so_far |-> {}, pushed |-> <<>>, panicked |-> FALSE]

\* A ConjunctionPlanBuilder whose graph is built.
PlannerBuilt(graph) ==
    [phase |-> "built", graph |-> graph, i |-> 0, beam_width |-> 0, extension_width |-> 0,
     best_partial_plans |-> <<>>, new_plans |-> <<>>, result |-> [status |-> "none"], lowering |-> NotLowering]

\* Iterator::min: the first of the plans of least heuristic cost.
MinPlan(plans) ==
    plans[CHOOSE i \in DOMAIN plans : \A j \in DOMAIN plans : /\ PlanKey(plans[i]) <= PlanKey(plans[j])
                                                             /\ PlanKey(plans[i]) = PlanKey(plans[j]) => i <= j]

\* What beam_search_plan returns.
PlanResult(complete_plan) ==
    [status |-> "Ok", vertex_ordering |-> complete_plan.vertex_ordering,
     pattern_metadata |-> complete_plan.pattern_metadata, cumulative_cost |-> complete_plan.cumulative_cost]

InitPlanner ==
    /\ instruction_count = 1
    /\ store = <<<<>>>>
    /\ outputs_selected = 1..OutputWidth
    /\ ex = IntersectionExecutorNew
    /\ out = <<>>
    /\ returned = "new"
    /\ batch_in = <<>>
    /\ resets = 0
    /\ replay = FALSE
    /\ planner \in {PlannerBuilt(graph) : graph \in Graphs}
    /\ imm = ImmediateIdle
    /\ disjunction = DisjunctionIdle

\* beam_search_plan up to its loop
BeamSearchStart ==
    /\ planner.phase = "built"
    /\ planner' = [planner EXCEPT !.phase = "search",
                                  !.beam_width = Clamp(NumPatterns(planner.graph) * 2, 2, MAX_BEAM_WIDTH),
                                  !.extension_width = (NumPatterns(planner.graph) \div 2) + 5,
                                  !.best_partial_plans = <<PartialCostPlanNew(SearchPatterns(planner.graph), AscendingSeq(planner.graph.input_variables))>>]
    /\ UNCHANGED executor_vars

\* One iteration of the loop of beam_search_plan.
BeamIteration ==
    /\ planner.phase = "search"
    /\ planner.i < NumPatterns(planner.graph)
    /\ \E pattern_order \in Orders(SearchPatterns(planner.graph)), variable_order \in VariableOrders(GraphVariables(planner.graph)), ties \in TieBreaks :
          \E beam_width \in {NarrowedWidth(planner.beam_width, planner.i, BEAM_REDUCTION_CYCLE)}, extension_width \in {NarrowedWidth(planner.extension_width, planner.i, EXTENSION_REDUCTION_CYCLE)} :
             \E new_plans \in {Items(DrainSorted(Keyed(NewPlans(planner.graph, planner.best_partial_plans, pattern_order, variable_order, ties, extension_width), PlanKey), ties))} :
                planner' = [planner EXCEPT !.i = @ + 1,
                                           !.beam_width = beam_width,
                                           !.extension_width = extension_width,
                                           !.new_plans = new_plans,
                                           !.best_partial_plans = PickBest(new_plans, <<>>, beam_width)]
    /\ UNCHANGED executor_vars

\* The end of beam_search_plan: the least plan, completed, or the error.
BeamSearchFinish ==
    /\ planner.phase = "search"
    /\ planner.i = NumPatterns(planner.graph)
    /\ \E pattern_order \in Orders(SearchPatterns(planner.graph)), variable_order \in VariableOrders(GraphVariables(planner.graph)) :
          planner' = [planner EXCEPT !.phase = "done",
                                     !.result = IF planner.best_partial_plans = <<>>
                                                THEN [status |-> "ExpectedPlannableConjunction"]
                                                ELSE PlanResult(IntoCompletePlan(planner.graph, MinPlan(planner.best_partial_plans), pattern_order, variable_order))]
    /\ UNCHANGED executor_vars

NextPlanner == BeamSearchStart \/ BeamIteration \/ BeamSearchFinish

\* beam_search_plan run on every graph.
SpecPlanner == InitPlanner /\ [][NextPlanner]_vars

\* ------------------------------------------------------------ properties
\* What the stored tuples say, independently of how the executor reads them.
\* ------------------------------------------------- register_comparison
MaxComparisons == 2          \* comparisons registered with one plan builder
MaxComparedVariables == 2    \* variables the comparisons are between

\* Input::from_vertex: a variable of the graph, or a value that is fixed.
InputVariable(var) == [kind |-> "Variable", id |-> var]
InputFixed == [kind |-> "Fixed", id |-> NoVertex]
ComparisonInputs == {InputVariable(var) : var \in 1..MaxComparedVariables} \cup {InputFixed}
Comparators == {"Equal", "NotEqual", "Less", "LessOrEqual", "Greater", "GreaterOrEqual", "Like", "Contains"}

\* A variable vertex without restrictions.
VariableVertexNew == [equal |-> {}, upper_bound |-> {}, lower_bound |-> {}]
\* VariableVertex::add_equal, add_upper_bound, add_lower_bound
AddEqual(vertex, other) == [vertex EXCEPT !.equal = @ \cup {other}]
AddUpperBound(vertex, other) == [vertex EXCEPT !.upper_bound = @ \cup {other}]
AddLowerBound(vertex, other) == [vertex EXCEPT !.lower_bound = @ \cup {other}]

\* The match on the comparator in register_comparison, the same for both sides.
ImprintBound(vertex, comparator, other) ==
    CASE comparator = "Equal" -> AddEqual(vertex, other)
      [] comparator \in {"Less", "LessOrEqual"} -> AddUpperBound(vertex, other)
      [] comparator \in {"Greater", "GreaterOrEqual"} -> AddLowerBound(vertex, other)
      [] OTHER -> vertex

\* The side of a comparison imprinted on its variable, if it is one.
ImprintSide(variables, side, comparator, other) ==
    IF side.kind = "Variable" THEN [variables EXCEPT ![side.id] = ImprintBound(@, comparator, other)] ELSE variables

\* ConjunctionPlanBuilder::register_comparison on the variable vertices.
RegisterComparison(variables, lhs, comparator, rhs) ==
    ImprintSide(ImprintSide(variables, lhs, comparator, rhs), rhs, comparator, lhs)

\* A plan builder that has registered the variables and no comparison yet.
RegisteringStart == [phase |-> "register", variables |-> [var \in 1..MaxComparedVariables |-> VariableVertexNew], comparisons |-> <<>>]

InitRegister ==
    /\ instruction_count = 1
    /\ store = <<<<>>>>
    /\ outputs_selected = 1..OutputWidth
    /\ ex = IntersectionExecutorNew
    /\ out = <<>>
    /\ returned = "new"
    /\ batch_in = <<>>
    /\ resets = 0
    /\ replay = FALSE
    /\ planner = RegisteringStart
    /\ imm = ImmediateIdle
    /\ disjunction = DisjunctionIdle

\* register_comparison, called for a comparison of the conjunction.
RegisterOne ==
    /\ planner.phase = "register"
    /\ Len(planner.comparisons) < MaxComparisons
    /\ \E lhs \in ComparisonInputs, rhs \in ComparisonInputs, comparator \in Comparators :
          planner' = [planner EXCEPT !.variables = RegisterComparison(@, lhs, comparator, rhs),
                                     !.comparisons = Append(@, [lhs |-> lhs, comparator |-> comparator, rhs |-> rhs])]
    /\ UNCHANGED executor_vars

NextRegister == RegisterOne

SpecRegister == InitRegister /\ [][NextRegister]_vars

\* ---------------------------------------------------------------------------
\* Disjunction and DisjunctionBuilder (ir/pattern/disjunction.rs)
\* ---------------------------------------------------------------------------

\* Scope ids the block context may hand out, the root scope 0 included.
MaxScopes == 4

\* Branch ids the block context may hand out.
MaxBranchIds == 4

\* Calls of optimise_away_unsatisfiable_branches on one disjunction.
MaxOptimise == 2

\* A block context holding the root scope only.
ContextNew == [scopes |-> 1, branches |-> 0]

\* BlockBuilderContext::create_child_scope: the next unused scope id.
CreateChildScope(context) == [context |-> [context EXCEPT !.scopes = @ + 1], id |-> context.scopes]

\* BlockBuilderContext::next_branch_id: the next unused branch id.
NextBranchId(context) == [context |-> [context EXCEPT !.branches = @ + 1], id |-> context.branches]

\* Conjunction::new
ConjunctionNew(scope_id) == [scope_id |-> scope_id]

\* Disjunction::new
DisjunctionNew == [conjunctions |-> <<>>, branch_ids |-> <<>>]

\* Disjunction::conjunctions_by_branch_id: the two lists zipped.
ConjunctionsByBranchId(d) == [i \in 1..MinOf(Len(d.branch_ids), Len(d.conjunctions)) |-> [scope_id |-> d.conjunctions[i].scope_id, branch_id |-> d.branch_ids[i]]]

\* DisjunctionBuilder::add_conjunction
AddConjunction(context, d) ==
    LET scope == CreateChildScope(context)
        branch == NextBranchId(scope.context)
    IN  [context |-> branch.context,
         scope_id |-> scope.id,
         branch_id |-> branch.id,
         disjunction |-> [conjunctions |-> Append(d.conjunctions, ConjunctionNew(scope.id)),
                          branch_ids |-> Append(d.branch_ids, branch.id)]]

\* The branch ids paired with a conjunction whose scope is unsatisfiable.
UnsatisfiableBranchIds(d, unsatisfiable) == {d.branch_ids[i] : i \in {i \in 1..MinOf(Len(d.branch_ids), Len(d.conjunctions)) : d.conjunctions[i].scope_id \in unsatisfiable}}

\* A retain of the branch ids that compares them with the scope ids given.
OptimiseAwayByScopeId(d, unsatisfiable) ==
    [conjunctions |-> SelectSeq(d.conjunctions, LAMBDA conj : conj.scope_id \notin unsatisfiable),
     branch_ids |-> SelectSeq(d.branch_ids, LAMBDA branch_id : branch_id \notin unsatisfiable)]

\* Disjunction::optimise_away_unsatisfiable_branches
OptimiseAwayUnsatisfiableBranches(d, unsatisfiable) ==
    [conjunctions |-> SelectSeq(d.conjunctions, LAMBDA conj : conj.scope_id \notin unsatisfiable),
     branch_ids |-> SelectSeq(d.branch_ids, LAMBDA branch_id : branch_id \notin UnsatisfiableBranchIds(d, unsatisfiable))]

\* The variables a disjunction builder never writes.
disjunction_frame == <<instruction_count, store, outputs_selected, ex, out, returned, batch_in, resets, replay, planner, imm>>

\* An empty disjunction in a fresh block context.  created lists the pair
\* each add_conjunction made, unsatisfiable every scope id given to a call
\* of optimise_away_unsatisfiable_branches, and calls the calls made on the
\* disjunction in order.
BuildingStart == [phase |-> "building", context |-> ContextNew, disjunction |-> DisjunctionNew, created |-> <<>>, unsatisfiable |-> {}, optimised |-> 0, calls |-> <<>>]

InitDisjunction ==
    /\ instruction_count = 1
    /\ store = <<<<>>>>
    /\ outputs_selected = 1..OutputWidth
    /\ ex = IntersectionExecutorNew
    /\ out = <<>>
    /\ returned = "new"
    /\ batch_in = <<>>
    /\ resets = 0
    /\ replay = FALSE
    /\ planner = PlannerIdle
    /\ imm = ImmediateIdle
    /\ disjunction = BuildingStart

\* DisjunctionBuilder::add_conjunction on the disjunction.
AddOne ==
    /\ disjunction.phase = "building"
    /\ disjunction.context.scopes < MaxScopes
    /\ disjunction.context.branches < MaxBranchIds
    /\ \E r \in {AddConjunction(disjunction.context, disjunction.disjunction)} :
          disjunction' = [disjunction EXCEPT !.context = r.context,
                                             !.disjunction = r.disjunction,
                                             !.created = Append(@, [scope_id |-> r.scope_id, branch_id |-> r.branch_id]),
                                             !.calls = Append(@, "add_conjunction")]
    /\ UNCHANGED disjunction_frame

\* Another pattern of the block takes a scope from the context.
ScopeElsewhere ==
    /\ disjunction.phase = "building"
    /\ disjunction.context.scopes < MaxScopes
    /\ disjunction' = [disjunction EXCEPT !.context = CreateChildScope(@).context]
    /\ UNCHANGED disjunction_frame

\* Another disjunction of the block takes a branch id from the context.
BranchElsewhere ==
    /\ disjunction.phase = "building"
    /\ disjunction.context.branches < MaxBranchIds
    /\ disjunction' = [disjunction EXCEPT !.context = NextBranchId(@).context]
    /\ UNCHANGED disjunction_frame

\* Disjunction::optimise_away_unsatisfiable_branches, given scopes of the block.
OptimiseOne ==
    /\ disjunction.phase = "building"
    /\ disjunction.optimised < MaxOptimise
    /\ \E unsatisfiable \in SUBSET (0..(disjunction.context.scopes - 1)) :
          disjunction' = [disjunction EXCEPT !.disjunction = OptimiseAwayUnsatisfiableBranches(@, unsatisfiable),
                                             !.unsatisfiable = @ \cup unsatisfiable,
                                             !.optimised = @ + 1,
                                             !.calls = Append(@, "optimise_away_unsatisfiable_branches")]
    /\ UNCHANGED disjunction_frame

NextDisjunction == AddOne \/ ScopeElsewhere \/ BranchElsewhere \/ OptimiseOne

SpecDisjunction == InitDisjunction /\ [][NextDisjunction]_vars

InitWide ==
    /\ instruction_count = 1
    /\ store = <<<<>>>>
    /\ outputs_selected = 1..OutputWidth
    /\ ex = IntersectionExecutorNew
    /\ out = <<>>
    /\ returned = "new"
    /\ batch_in = <<>>
    /\ resets = 0
    /\ replay = FALSE
    /\ planner \in {PlannerBuilt(graph) : graph \in WideGraphs}
    /\ imm = ImmediateIdle
    /\ disjunction = DisjunctionIdle

\* beam_search_plan run on the graphs that hold both comparisons.
SpecWide == InitWide /\ [][NextPlanner]_vars

InputValue(r) == batch_in[r].vals[InPos]

KeysOf(tuples) == {tuples[j][1] : j \in 1..Len(tuples)}

CommonKeys(x) == {k \in KeysOf(Data(1, x)) : \A e \in 1..instruction_count : k \in KeysOf(Data(e, x))}

RECURSIVE Ascending(_)
Ascending(S) ==
    IF S = {} THEN <<>>
    ELSE LET m == CHOOSE a \in S : \A b \in S : a <= b IN <<m>> \o Ascending(S \ {m})

RowsAtKey(tuples, k) == SelectSeq(tuples, LAMBDA t : t[1] = k)

\* The tuples at key k equal to the first tuple at k: what advance_past skips.
FirstRunAtKey(tuples, k) ==
    LET rows == RowsAtKey(tuples, k) IN SelectSeq(rows, LAMBDA t : t = rows[1])

NoDuplicates ==
    \A e \in 1..instruction_count : \A i, j \in 1..Len(store[e]) :
        store[e][i] = store[e][j] => i = j

RECURSIVE ProductOver(_, _)
ProductOver(f, e) == IF e > instruction_count THEN 1 ELSE f[e] * ProductOver(f, e + 1)

RECURSIVE SumSeq(_, _)
SumSeq(q, i) == IF i > Len(q) THEN 0 ELSE q[i] + SumSeq(q, i + 1)

IsPrefix(q, t) == Len(q) <= Len(t) /\ \A i \in 1..Len(q) : q[i] = t[i]

InputExhausted == ex.input.present /\ ~InputPeekSome(ex.input)

FoundValues(r) ==
    LET entries == SelectSeq(ex.found_log, LAMBDA f : f.row = r)
    IN  [i \in 1..Len(entries) |-> entries[i].value]

\* C1: with two or more iterators the values at which find_intersection
\* succeeds for an input row are, in order, the ascending common values of the
\* row's iterators, and at each of them all iterators peek the same value: the
\* whole sequence once the row is consumed, a prefix of it while it is current.
C1_IntersectionValues ==
    (instruction_count >= 2 /\ ex.input.present) =>
        \A r \in 1..Len(batch_in) :
            LET common == Ascending(CommonKeys(InputValue(r))) IN
            IF r < ex.input.idx THEN FoundValues(r) = common
            ELSE IF r = ex.input.idx THEN IsPrefix(FoundValues(r), common)
            ELSE FoundValues(r) = <<>>

\* C1 witness: an intersection was found at value 3 for a row of which one
\* iterator has value 1 but not 2 and another has value 2 but not 1, so that
\* an iterator was advanced beyond the current maximum on the way.
C1_Witness ==
    /\ instruction_count >= 2
    /\ ex.input.present
    /\ \E i \in 1..Len(ex.found_log) :
          LET x == InputValue(ex.found_log[i].row) IN
          /\ ex.found_log[i].value = 3
          /\ \E e \in 1..instruction_count :
                1 \in KeysOf(Data(e, x)) /\ 2 \notin KeysOf(Data(e, x))
          /\ \E e \in 1..instruction_count :
                2 \in KeysOf(Data(e, x)) /\ 1 \notin KeysOf(Data(e, x))

ExpectedRowCount(r) ==
    LET x == InputValue(r)
        common == Ascending(CommonKeys(x))
    IN  SumSeq([i \in 1..Len(common) |->
                   ProductOver([e \in 1..instruction_count |->
                                   Len(RowsAtKey(Data(e, x), common[i]))], 1)], 1)

\* C2: once the input batch is used up, the number of rows returned is the
\* sum over input rows and common join keys of the product of the numbers of
\* tuples of each instruction at that key (tuples being pairwise distinct).
C2_RowCount ==
    (InputExhausted /\ NoDuplicates) =>
        Len(out) = SumSeq([r \in 1..Len(batch_in) |-> ExpectedRowCount(r)], 1)

\* All combinations of lists[e], e = from..instruction_count, the last list
\* varying fastest.
RECURSIVE Odometer(_, _)
Odometer(lists, from) ==
    IF from > instruction_count THEN <<<<>>>>
    ELSE LET rest == Odometer(lists, from + 1)
             n == Len(rest)
         IN  [i \in 1..(Len(lists[from]) * n) |->
                 <<lists[from][((i - 1) \div n) + 1]>> \o rest[((i - 1) % n) + 1]]

CartesianRows(r, v) ==
    LET rows == SelectSeq(out, LAMBDA w : w.cartesian /\ w.from_row = r /\ w.at_value = v)
    IN  [i \in 1..Len(rows) |-> rows[i].vals]

ExpectedCartesianRows(r, v, indices) ==
    LET x == InputValue(r)
        listed == {indices[i] : i \in 1..Len(indices)}
        lists == [e \in 1..instruction_count |->
                     LET rows == RowsAtKey(Data(e, x), v) IN
                     IF e \in listed THEN [j \in 1..Len(rows) |-> rows[j][2]]
                     ELSE <<rows[1][2]>>]
        combos == Odometer(lists, 1)
    IN  [i \in 1..Len(combos) |-> <<x, v>> \o combos[i]]

\* C3: the rows emitted while the cartesian iterator is active at value v are
\* the combinations of the rows at v of the listed iterators, each once, the
\* rightmost listed iterator varying fastest: a prefix of that enumeration
\* while the cartesian iterator is still active at v, all of it afterwards.
C3_CartesianOdometer ==
    \A i \in 1..Len(out) :
        out[i].cartesian =>
            LET r == out[i].from_row
                v == out[i].at_value
                got == CartesianRows(r, v)
                want == ExpectedCartesianRows(r, v, out[i].indices)
                ongoing == /\ ex.cartesian_iterator.is_active
                           /\ ex.input.idx = r
                           /\ ex.intersection_value = v
            IN  IF ongoing THEN IsPrefix(got, want) ELSE got = want

\* C4: the iterator stored in slot i of the cartesian iterator is always an
\* iterator of instruction executor i (every reopen uses the executor of the
\* slot that is reopened).
C4_SlotHoldsOwnExecutor ==
    \A i \in 1..instruction_count :
        ex.cartesian_iterator.iterators[i] # NoIter
            => ex.cartesian_iterator.iterators[i].exec = i

\* Whether the tuples at key k hold a tuple other than the first one: the
\* iterator still peeks k after advance_past.
MoreThanOneRowAt(tuples, k) ==
    Len(FirstRunAtKey(tuples, k)) < Len(RowsAtKey(tuples, k))

CurrentInputValue == InputPeek(ex.input).vals[InPos]

\* C5 as claimed: the cartesian sub-executor is active only when more than one
\* iterator still peeked intersection_value after the advancement.
C5_ActiveOnlyWithSeveral ==
    ex.cartesian_iterator.is_active =>
        Len(ex.cartesian_iterator.cartesian_executor_indices) > 1

\* C5 as amended: the cartesian sub-executor is active only in a step of two
\* or more iterators of which at least one has more than one row at the
\* current intersection value.
C5_ActiveOnlyWithOne ==
    ex.cartesian_iterator.is_active =>
        /\ instruction_count >= 2
        /\ InputPeekSome(ex.input)
        /\ \E e \in 1..instruction_count :
              MoreThanOneRowAt(Data(e, CurrentInputValue), ex.intersection_value)

\* C5 witness: the cartesian sub-executor is active with exactly one listed
\* iterator.
C5_Witness ==
    /\ ex.cartesian_iterator.is_active
    /\ Len(ex.cartesian_iterator.cartesian_executor_indices) = 1
    /\ Len(out) >= 1

VisibleRows(rows) == [i \in 1..Len(rows) |-> Visible(rows[i])]

RECURSIVE RunToEnd(_, _)
RunToEnd(st, rows) ==
    With(ComputeNextRow(st), LAMBDA next :
      IF next.found THEN RunToEnd(next.st, Append(rows, WriteNextRowInto(next.st)))
      ELSE [st |-> next.st, rows |-> rows])

\* All the rows of a freshly constructed executor prepared with input_batch.
FreshRun(input_batch) == RunToEnd(IntersectionPrepare(IntersectionExecutorNew, input_batch), <<>>)

\* C6: after reset and prepare, batch_continue returns the rows that a freshly
\* constructed executor returns for the same input batch: a prefix of them
\* while input is left, all of them once it is used up, and it does not panic.
C6_ResetReplays ==
    (replay /\ returned # "reset") =>
        \A fresh \in {FreshRun(batch_in)} :
            /\ ~ex.panicked
            /\ IsPrefix(VisibleRows(out), VisibleRows(fresh.rows))
            /\ InputExhausted => VisibleRows(out) = VisibleRows(fresh.rows)

\* C7: right after reset the executor holds no iterator and no input: the
\* intersection iterators are empty, the input is None and every slot of the
\* cartesian iterator is released.
C7_ResetReleasesAll ==
    returned = "reset" =>
        /\ ex.iterators = <<>>
        /\ ~ex.input.present
        /\ \A i \in 1..instruction_count : ex.cartesian_iterator.iterators[i] = NoIter

\* The product over the iterators of the number of stored tuples equal to the
\* tuple the iterator peeked at the row's intersection: what advance_past
\* skips there.
AdvancePastProduct(row) ==
    ProductOver([e \in 1..instruction_count |->
                    IF e <= Len(row.tuples)
                    THEN Len(SelectSeq(Data(e, InputValue(row.from_row)),
                                       LAMBDA t : t = row.tuples[e]))
                    ELSE 0], 1)

\* C8: the multiplicity of every row returned is the product over the step's
\* iterators of the number of tuples advance_past skipped at the row's
\* intersection value.
C8_MultiplicityIsProduct ==
    \A i \in 1..Len(out) :
        out[i].mult = AdvancePastProduct(out[i])

\* C8 witness: a row of a cartesian enumeration with two iterators that each
\* skipped two tuples.
C8_Witness ==
    \E i \in 1..Len(out) :
        /\ out[i].cartesian
        /\ out[i].mult = 4

\* C9: the multiplicity of every row returned is the multiplicity of its input
\* row times the multiplicities contributed by the step's iterators.
C9_InputMultiplicityKept ==
    \A i \in 1..Len(out) :
        out[i].mult = batch_in[out[i].from_row].mult * AdvancePastProduct(out[i])

\* C10: rows come out in input-row order, each carrying the provenance and the
\* input value of the row it was derived from, and an input row is consumed
\* only after a row was returned for each common value of its iterators.
C10_InputRowOrder ==
    /\ \A i, j \in 1..Len(out) : i < j => out[i].from_row <= out[j].from_row
    /\ \A i \in 1..Len(out) :
          /\ out[i].from_row \in 1..Len(batch_in)
          /\ out[i].prov = batch_in[out[i].from_row].prov
          /\ InPos \in outputs_selected => out[i].vals[InPos] = InputValue(out[i].from_row)
    /\ ex.input.present =>
          \A r \in 1..Len(batch_in) :
              r < ex.input.idx =>
                  \A k \in CommonKeys(InputValue(r)) :
                      \E i \in 1..Len(out) : out[i].from_row = r /\ out[i].at_value = k

\* C10 witness: rows of two input rows were returned, the first row having
\* yielded a cartesian enumeration.
C10_Witness ==
    /\ Len(batch_in) = 2
    /\ \E i, j \in 1..Len(out) :
          /\ out[i].from_row = 1 /\ out[i].cartesian
          /\ out[j].from_row = 2

\* The sort-variable values of the rows returned for input row r, each listed
\* once, in the order of their first row.
RECURSIVE ValuesInOrder(_, _, _)
ValuesInOrder(rows, i, r) ==
    IF i > Len(rows) THEN <<>>
    ELSE IF rows[i].from_row = r
            /\ \A j \in 1..(i - 1) : ~(rows[j].from_row = r /\ rows[j].at_value = rows[i].at_value)
    THEN <<rows[i].at_value>> \o ValuesInOrder(rows, i + 1, r)
    ELSE ValuesInOrder(rows, i + 1, r)

\* C11: with two or more iterators the intersection values recorded for an
\* input row are strictly increasing; the rows returned follow them: once a row
\* of a greater value was returned no row of a smaller value follows, a value
\* without cartesian enumeration has one row only, and the values of the rows
\* are the values found, in that order.
C11_ValuesStrictlyIncrease ==
    (instruction_count >= 2 /\ ex.input.present) =>
        /\ \A i, j \in 1..Len(ex.found_log) :
              (i < j /\ ex.found_log[i].row = ex.found_log[j].row)
                  => ex.found_log[i].value < ex.found_log[j].value
        /\ \A i, j \in 1..Len(out) :
              (i < j /\ out[i].from_row = out[j].from_row) =>
                  /\ out[i].at_value <= out[j].at_value
                  /\ out[i].at_value = out[j].at_value
                        => out[i].cartesian /\ out[j].cartesian
        /\ \A r \in 1..Len(batch_in) :
              IF r < ex.input.idx \/ ~InputPeekSome(ex.input)
              THEN ValuesInOrder(out, 1, r) = FoundValues(r)
              ELSE IsPrefix(ValuesInOrder(out, 1, r), FoundValues(r))

\* C11 witness: a cartesian enumeration of two rows at value 1 was followed by
\* a row at value 2 of the same input row, in plain mode.
C11_Witness ==
    /\ instruction_count >= 2
    /\ \E i, j, k \in 1..Len(out) :
          /\ i < j /\ j < k
          /\ out[i].from_row = out[k].from_row /\ out[j].from_row = out[k].from_row
          /\ out[i].cartesian /\ out[i].at_value = 1
          /\ out[j].cartesian /\ out[j].at_value = 1
          /\ ~out[k].cartesian /\ out[k].at_value = 2

\* C12: every row returned, from plain mode or from the cartesian iterator,
\* is empty at every position that is not in outputs_selected.
C12_OnlySelectedPositions ==
    \A i \in 1..Len(out) :
        \A p \in 1..OutputWidth :
            p \notin outputs_selected => out[i].vals[p] = NoValue

\* The positions the iterators of the step write.
WrittenPositions == {SortPos} \cup {ValPos(e) : e \in 1..instruction_count}

\* C13: at a selected position where the input row has a value and the
\* iterators write nothing, a returned row has the input row's value; at a
\* selected position the iterators write, it has the iterators' value even
\* when the input row has a value there.
C13_InputCarriedOver ==
    \A i \in 1..Len(out) :
        LET input_vals == batch_in[out[i].from_row].vals IN
        \A p \in outputs_selected \cap (1..Len(input_vals)) :
            IF p \in WrittenPositions
            THEN p = SortPos => out[i].vals[p] = out[i].at_value
            ELSE input_vals[p] # NoValue => out[i].vals[p] = input_vals[p]

\* C13 witness: a returned row carries the input variable's value and has the
\* intersection value at the sort variable's position, where the input row
\* holds another value.
C13_Witness ==
    \E i \in 1..Len(out) :
        LET input_vals == batch_in[out[i].from_row].vals IN
        /\ {InPos, SortPos} \subseteq outputs_selected
        /\ input_vals[SortPos] = StaleValue
        /\ out[i].vals[InPos] = input_vals[InPos]
        /\ out[i].vals[SortPos] = out[i].at_value


\* ---------------------------------------------------------------- lowering
\* ConjunctionPlan::lower and the MatchExecutableBuilder it drives.
\* MatchExecutableBuilder::new; position is the vertex lower looks at next.
MatchExecutableBuilderNew(selected_variables, input_variables) ==
    [NotLowering EXCEPT !.position = 1, !.selected_variables = selected_variables, !.produced_so_far = input_variables]

\* MatchExecutableBuilder::finish_one: the open step is closed.
FinishOne(builder) ==
    IF builder.current.kind = "none" THEN builder
    ELSE [builder EXCEPT !.steps = Append(@, builder.current), !.current = NoStep]

\* The step an instruction is pushed into: the open intersection step, or a new one.
StepPushedInto(builder, sort_variable) ==
    IF builder.current.kind = "intersection" THEN builder.current
    ELSE [NoStep EXCEPT !.kind = "intersection", !.sort_variable = sort_variable]

\* push_instruction on a builder whose open step, if any, is an intersection;
\* pushed records the sort variable of the step that was open.
PushIntoIntersection(builder, sort_variable, pattern, variables) ==
    [builder EXCEPT !.current = [StepPushedInto(builder, sort_variable) EXCEPT !.instructions = Append(@, pattern)],
                    !.produced_so_far = @ \cup variables,
                    !.pushed = Append(@, [pattern |-> pattern, open_sort_variable |-> builder.current.sort_variable])]

\* MatchExecutableBuilder::push_instruction
PushInstruction(builder, sort_variable, pattern, variables) ==
    PushIntoIntersection(IF builder.current.kind \in {"none", "intersection"} THEN builder ELSE FinishOne(builder), sort_variable, pattern, variables)

\* MatchExecutableBuilder::push_check: a check trails the open step.
PushCheck(builder, pattern) ==
    IF builder.current.kind \in {"intersection", "check"}
    THEN [builder EXCEPT !.current.checks = Append(@, pattern)]
    ELSE [FinishOne(builder) EXCEPT !.current = [NoStep EXCEPT !.kind = "check", !.checks = <<pattern>>]]

\* MatchExecutableBuilder::push_step: a step of its own.
PushStep(builder, kind, pattern, variables) ==
    [FinishOne(builder) EXCEPT !.steps = Append(@, [NoStep EXCEPT !.kind = kind, !.instructions = <<pattern>>]),
                               !.produced_so_far = @ \cup variables]

\* element_to_order
ElementToOrder(ordering, vertex) == CHOOSE i \in DOMAIN ordering : ordering[i] = vertex /\ \A j \in DOMAIN ordering : ordering[j] = vertex => j <= i

\* ConjunctionPlan::producers_of_var
ProducersOfVar(graph, ordering, var) ==
    {p \in SearchPatterns(graph) : var \in VariablesOf(graph, p) /\ ElementToOrder(ordering, PatternId(p)) < ElementToOrder(ordering, VariableId(var))}
\* ConjunctionPlan::consumers_of_var
ConsumersOfVar(graph, ordering, var) ==
    {p \in SearchPatterns(graph) : var \in VariablesOf(graph, p) /\ ElementToOrder(ordering, PatternId(p)) > ElementToOrder(ordering, VariableId(var))}
\* ConjunctionPlan::inputs_of_pattern
InputsOfPattern(graph, ordering, pattern) ==
    {var \in VariablesOf(graph, pattern) : ElementToOrder(ordering, VariableId(var)) < ElementToOrder(ordering, PatternId(pattern))}
\* ConjunctionPlan::outputs_of_pattern
OutputsOfPattern(graph, ordering, pattern) ==
    {var \in VariablesOf(graph, pattern) : ElementToOrder(ordering, VariableId(var)) > ElementToOrder(ordering, PatternId(pattern))}

\* `a.or(b)` of two optional variables
OrElse(a, b) == IF a # NoVertex THEN a ELSE b

\* The direction the macro binary! of lower_constraint picks.
LoweredDirection(vertex, metadata, inputs) ==
    IF vertex.vars[1] \notin inputs /\ vertex.vars[2] \notin inputs THEN metadata
    ELSE IF vertex.vars[2] \in inputs THEN "reverse" ELSE "canonical"

\* lhs_produced and rhs_produced of binary!
ProducedSide(var, inputs) == IF var \in inputs THEN NoVertex ELSE var

\* The sort variable binary! pushes the instruction with.
BinarySortVariable(vertex, metadata, inputs, sort_variable) ==
    IF sort_variable # NoVertex THEN sort_variable
    ELSE IF LoweredDirection(vertex, metadata, inputs) = "canonical"
    THEN OrElse(ProducedSide(vertex.vars[1], inputs), ProducedSide(vertex.vars[2], inputs))
    ELSE OrElse(ProducedSide(vertex.vars[2], inputs), ProducedSide(vertex.vars[1], inputs))

\* The head of lower_constraint: a planned join on another variable is ignored.
CloseIncompatibleStep(builder, graph, pattern) ==
    IF /\ builder.current.kind = "intersection"
       /\ builder.current.sort_variable # NoVertex
       /\ builder.current.sort_variable \notin VariablesOf(graph, pattern)
    THEN FinishOne(builder) ELSE builder

\* ConjunctionPlan::lower_constraint
LowerConstraint(builder, graph, pattern, metadata, inputs, sort_variable) ==
    PushInstruction(CloseIncompatibleStep(builder, graph, pattern),
                    BinarySortVariable(graph.elements[pattern], metadata, inputs, sort_variable),
                    pattern, VariablesOf(graph, pattern) \ inputs)

\* One producer in the loop of may_make_variable_producing_step.
LowerProducer(builder, graph, plan, var, producer, is_join) ==
    CASE graph.elements[producer].kind = "constraint" ->
            LowerConstraint(builder, graph, producer, plan.pattern_metadata[producer],
                            InputsOfPattern(graph, plan.vertex_ordering, producer), IF is_join THEN var ELSE NoVertex)
      [] graph.elements[producer].kind = "expression" -> PushStep(builder, "expression", producer, {graph.elements[producer].vars[1]})
      [] graph.elements[producer].kind = "comparison" -> [builder EXCEPT !.panicked = TRUE]

RECURSIVE LowerProducers(_, _, _, _, _, _)
LowerProducers(builder, graph, plan, var, producers, is_join) ==
    IF producers = <<>> \/ builder.panicked THEN builder
    ELSE LowerProducers(LowerProducer(builder, graph, plan, var, Head(producers), is_join), graph, plan, var, Tail(producers), is_join)

\* ConjunctionPlan::may_make_variable_producing_step
MayMakeVariableProducingStep(builder, graph, plan, var, pattern_order) ==
    IF var \in graph.input_variables \/ var \in builder.produced_so_far THEN builder
    ELSE FinishOne(LowerProducers(builder, graph, plan, var,
                                  IterateSet(ProducersOfVar(graph, plan.vertex_ordering, var), pattern_order),
                                  Cardinality(ProducersOfVar(graph, plan.vertex_ordering, var)) >= 2))

\* ConjunctionPlan::may_make_check_step
MayMakeCheckStep(builder, graph, pattern) ==
    IF graph.elements[pattern].kind = "expression" THEN [builder EXCEPT !.panicked = TRUE]
    ELSE PushCheck(builder, pattern)

\* is_last_consumer of an input of a pattern
IsLastConsumer(graph, ordering, pattern, input) ==
    \A pat \in ConsumersOfVar(graph, ordering, input) : ElementToOrder(ordering, PatternId(pat)) <= ElementToOrder(ordering, PatternId(pattern))

\* The loops over the inputs and the outputs of a pattern vertex in lower.
FinishForPattern(builder, graph, ordering, pattern) ==
    IF \/ \E input \in InputsOfPattern(graph, ordering, pattern) : IsLastConsumer(graph, ordering, pattern, input)
       \/ \E output \in OutputsOfPattern(graph, ordering, pattern) :
             output \in builder.selected_variables \/ ConsumersOfVar(graph, ordering, output) # {}
    THEN FinishOne(builder) ELSE builder

\* The arm of lower for a pattern vertex.
LowerPattern(builder, graph, ordering, pattern) ==
    IF OutputsOfPattern(graph, ordering, pattern) = {}
    THEN MayMakeCheckStep(FinishForPattern(builder, graph, ordering, pattern), graph, pattern)
    ELSE FinishForPattern(builder, graph, ordering, pattern)

\* One iteration of the loop of lower.
LowerVertexAt(builder, graph, plan, pattern_order) ==
    IF plan.vertex_ordering[builder.position][1] = "variable"
    THEN MayMakeVariableProducingStep(builder, graph, plan, plan.vertex_ordering[builder.position][2], pattern_order)
    ELSE LowerPattern(builder, graph, plan.vertex_ordering, plan.vertex_ordering[builder.position][2])

\* ConjunctionPlan::lower up to its loop
LowerStart ==
    /\ planner.phase = "done"
    /\ planner.result.status = "Ok"
    /\ \E selected_variables \in {{}, GraphVariables(planner.graph)} :
          planner' = [planner EXCEPT !.phase = "lowering",
                                     !.lowering = MatchExecutableBuilderNew(selected_variables, planner.graph.input_variables)]
    /\ UNCHANGED executor_vars

\* ConjunctionPlan::lower, one vertex of the ordering
LowerVertex ==
    /\ planner.phase = "lowering"
    /\ ~planner.lowering.panicked
    /\ planner.lowering.position <= Len(planner.result.vertex_ordering)
    /\ \E pattern_order \in Orders(SearchPatterns(planner.graph)) :
          \E builder \in {LowerVertexAt(planner.lowering, planner.graph, planner.result, pattern_order)} :
             planner' = [planner EXCEPT !.lowering = [builder EXCEPT !.position = @ + 1]]
    /\ UNCHANGED executor_vars

NextLower == NextPlanner \/ LowerStart \/ LowerVertex

\* A conjunction planned and then lowered.
SpecLower == InitPlanner /\ [][NextLower]_vars

\* ------------------------------------------------ the immediate executors
\* ImmediateExecutor with its CheckExecutor, AssignExecutor and
\* UnsortedJoinExecutor (executor/read/immediate_executor.rs).
MaxImmediateExec == 2   \* instruction executors of an intersection step behind ImmediateExecutor

\* A number as a VariableValue; NoValue is VariableValue::None.
IntoValue(number) == number + 1
\* ExpressionValue::try_from_value: an empty variable is no expression value.
TryFromValue(value) == IF value = NoValue THEN [ok |-> FALSE, number |-> 0] ELSE [ok |-> TRUE, number |-> value - 1]

\* evaluate_expression on the numbers of the input positions: a sum, or a
\* quotient that fails on a divisor of zero.
EvaluateExpression(expression, numbers) ==
    IF expression = "quotient"
    THEN IF numbers[2] = 0 THEN [ok |-> FALSE, number |-> 0] ELSE [ok |-> TRUE, number |-> numbers[1] \div numbers[2]]
    ELSE [ok |-> TRUE, number |-> numbers[1] + numbers[2]]

\* One CheckInstruction evaluated on a row.
CheckHolds(check, vals) == IF check = "equal" THEN vals[1] = vals[2] ELSE vals[1] < vals[2]
\* Checker::filter_fn_for_row: every check holds.
FilterForRow(checks, vals) == \A i \in DOMAIN checks : CheckHolds(checks[i], vals)

\* The steps an executor is built for.
CheckSteps == {[kind |-> "check", check_instructions |-> checks, selected_variables |-> selected, output_width |-> 3] : checks \in {<<>>, <<"equal">>, <<"less">>, <<"less", "equal">>}, selected \in {{1}, {1, 2}, {2, 3}}}
AssignmentSteps == {[kind |-> "assignment", expression |-> expression, input_positions |-> <<1, 2>>, unbound |-> unbound, selected_variables |-> selected, output_width |-> 3] : expression \in {"sum", "quotient"}, unbound \in {NoValue, 3}, selected \in {{1, 3}, {2}}}
ImmediateSteps == CheckSteps \cup AssignmentSteps \cup {[kind |-> "intersection"], [kind |-> "unsorted_join"]}

\* The rows given to a check or assignment step: the first variable may be
\* empty, the second holds the number 0 or 1.
ImmediateRows == {[vals |-> <<a, b>>, mult |-> b, prov |-> a] : a \in 0..2, b \in 1..2}
\* A FixedBatch of such rows.
ImmediateBatches == UNION {[1..len -> ImmediateRows] : len \in 1..BatchRowsMax}

\* Option<FixedBatch>
NoBatch == [present |-> FALSE, rows |-> <<>>]
SomeBatch(rows) == [present |-> TRUE, rows |-> rows]

\* A step that has no executor yet.
ImmediateForStep(step) ==
    [phase |-> "step", step |-> step, kind |-> "none", error |-> "none", input |-> NoBatch,
     interrupted |-> FALSE, prepared |-> FALSE, calls |-> 0, panicked |-> FALSE]

\* What a constructor returns: Ok(executor of the kind) or Err(error).
Constructed(step, kind, error) ==
    [ImmediateForStep(step) EXCEPT !.phase = IF error = "none" THEN "built" ELSE "failed", !.kind = kind, !.error = error]

\* ImmediateExecutor::new_intersection
NewIntersection(step) == Constructed(step, "SortedJoin", "none")
\* A new_unsorted_join that goes on to build the executor.
NewUnsortedJoinBuilds(step) == Constructed(step, "UnsortedJoin", "none")
\* ImmediateExecutor::new_unsorted_join
NewUnsortedJoin(step) == Constructed(step, "none", "UnimplementedFunctionality(UnsortedJoin)")
\* ImmediateExecutor::new_assignment
NewAssignment(step) == Constructed(step, "Assignment", "none")
\* ImmediateExecutor::new_check
NewCheck(step) == Constructed(step, "Check", "none")

\* The constructor called for a step.
NewImmediate(step) ==
    CASE step.kind = "intersection" -> NewIntersection(step)
      [] step.kind = "unsorted_join" -> NewUnsortedJoin(step)
      [] step.kind = "assignment" -> NewAssignment(step)
      [] step.kind = "check" -> NewCheck(step)

\* The values of the selected positions that the input row has.
SelectedOf(input_row, selected, width) ==
    [p \in 1..width |-> IF p \in selected /\ p <= Len(input_row.vals) THEN input_row.vals[p] ELSE NoValue]

\* Row::copy_mapped of the selected positions onto themselves.
CopyMapped(input_row, selected, width) ==
    [vals |-> SelectedOf(input_row, selected, width), mult |-> input_row.mult, prov |-> input_row.prov]

\* A check loop that lets every row through.
RECURSIVE CheckLoopUnfiltered(_, _, _, _)
CheckLoopUnfiltered(step, rows, i, output) ==
    IF i > Len(rows) THEN output
    ELSE CheckLoopUnfiltered(step, rows, i + 1, Append(output, CopyMapped(rows[i], step.selected_variables, step.output_width)))

\* The loop of CheckExecutor::batch_continue over the input rows.
RECURSIVE CheckLoop(_, _, _, _)
CheckLoop(step, rows, i, output) ==
    IF i > Len(rows) THEN output
    ELSE IF FilterForRow(step.check_instructions, rows[i].vals)
    THEN CheckLoop(step, rows, i + 1, Append(output, CopyMapped(rows[i], step.selected_variables, step.output_width)))
    ELSE CheckLoop(step, rows, i + 1, output)

\* What a batch_continue leaves and returns.
Continued(executor, result, batch) == [executor |-> executor, returned |-> result, batch |-> batch]
BatchOrNone(executor, output) == Continued(executor, IF output = <<>> THEN "none" ELSE "batch", output)

\* CheckExecutor::batch_continue
CheckBatchContinue(executor) ==
    IF ~executor.input.present THEN Continued(executor, "none", <<>>)
    ELSE BatchOrNone([executor EXCEPT !.input = NoBatch], CheckLoop(executor.step, executor.input.rows, 1, <<>>))

\* The expression values of the input positions of a row.
InputVariables(step, input_row) == [i \in DOMAIN step.input_positions |-> TryFromValue(input_row.vals[step.input_positions[i]])]
NumbersOf(input_variables) == [i \in DOMAIN input_variables |-> input_variables[i].number]

\* The row an assignment appends: the selected positions of the input row
\* and the value at the position of the assigned variable, if it has one.
AssignedRow(step, input_row, number) ==
    [vals |-> [p \in 1..step.output_width |-> IF p = step.unbound THEN IntoValue(number) ELSE SelectedOf(input_row, step.selected_variables, step.output_width)[p]],
     mult |-> input_row.mult, prov |-> ProvenanceInitial]

\* The body of the loop of AssignExecutor::batch_continue for one row.
AssignRow(step, input_row) ==
    IF \E i \in DOMAIN step.input_positions : ~InputVariables(step, input_row)[i].ok
    THEN [ok |-> FALSE, row |-> input_row]
    ELSE With(EvaluateExpression(step.expression, NumbersOf(InputVariables(step, input_row))),
              LAMBDA value : [ok |-> value.ok, row |-> AssignedRow(step, input_row, value.number)])

\* An assignment loop that leaves a failing row out and goes on.
RECURSIVE AssignLoopSkipping(_, _, _, _)
AssignLoopSkipping(step, rows, i, output) ==
    IF Len(output) >= BatchRowsMax \/ i > Len(rows) THEN [ok |-> TRUE, output |-> output]
    ELSE AssignLoopSkipping(step, rows, i + 1, IF AssignRow(step, rows[i]).ok THEN Append(output, AssignRow(step, rows[i]).row) ELSE output)

\* The loop of AssignExecutor::batch_continue.
RECURSIVE AssignLoop(_, _, _, _)
AssignLoop(step, rows, i, output) ==
    IF Len(output) >= BatchRowsMax \/ i > Len(rows) THEN [ok |-> TRUE, output |-> output]
    ELSE IF ~AssignRow(step, rows[i]).ok THEN [ok |-> FALSE, output |-> <<>>]
    ELSE AssignLoop(step, rows, i + 1, Append(output, AssignRow(step, rows[i]).row))

\* AssignExecutor::batch_continue
AssignBatchContinue(executor) ==
    IF ~executor.input.present THEN Continued(executor, "none", <<>>)
    ELSE With(AssignLoop(executor.step, executor.input.rows, 1, <<>>),
              LAMBDA looped : IF looped.ok THEN BatchOrNone([executor EXCEPT !.input = NoBatch], looped.output)
                              ELSE Continued([executor EXCEPT !.input = NoBatch], "ExpressionEvaluate", <<>>))

\* unimplemented_feature!(UnsortedJoin) in the methods of UnsortedJoinExecutor
UnimplementedUnsortedJoin(executor) == [executor EXCEPT !.panicked = TRUE]

\* IntersectionExecutor::batch_continue, as ImmediateExecutor calls it.
SortedBatchContinue(st) ==
    With(MayComputeNextBatch(st),
         LAMBDA result : [st |-> result.st,
                          returned |-> IF result.st.panicked THEN "panic" ELSE IF result.batch = <<>> THEN "none" ELSE "batch",
                          batch |-> IF result.st.panicked THEN <<>> ELSE result.batch])

\* ImmediateExecutor::prepare; the interrupt and the counters are untouched.
ImmediatePrepare(executor, st, input_batch) ==
    CASE executor.kind = "SortedJoin" -> [executor |-> executor, st |-> [IntersectionPrepare(st, input_batch) EXCEPT !.found_log = <<>>], returned |-> "prepared"]
      [] executor.kind = "UnsortedJoin" -> [executor |-> UnimplementedUnsortedJoin(executor), st |-> st, returned |-> "panic"]
      [] executor.kind \in {"Assignment", "Check"} -> [executor |-> [executor EXCEPT !.input = SomeBatch(input_batch)], st |-> st, returned |-> "prepared"]

\* ImmediateExecutor::batch_continue; interrupt is the handle passed in.
ImmediateBatchContinue(executor, st, interrupt) ==
    CASE executor.kind = "SortedJoin" ->
            With(SortedBatchContinue(st), LAMBDA r : [executor |-> executor, st |-> r.st, returned |-> r.returned, batch |-> r.batch])
      [] executor.kind = "UnsortedJoin" -> [executor |-> UnimplementedUnsortedJoin(executor), st |-> st, returned |-> "panic", batch |-> <<>>]
      [] executor.kind = "Assignment" ->
            With(AssignBatchContinue(executor), LAMBDA r : [executor |-> r.executor, st |-> st, returned |-> r.returned, batch |-> r.batch])
      [] executor.kind = "Check" ->
            With(CheckBatchContinue(executor), LAMBDA r : [executor |-> r.executor, st |-> st, returned |-> r.returned, batch |-> r.batch])

\* ImmediateExecutor::reset
ImmediateReset(executor, st) ==
    CASE executor.kind = "SortedJoin" -> [executor |-> executor, st |-> IntersectionReset(st), returned |-> "reset"]
      [] executor.kind = "UnsortedJoin" -> [executor |-> UnimplementedUnsortedJoin(executor), st |-> st, returned |-> "panic"]
      [] executor.kind \in {"Assignment", "Check"} -> [executor |-> [executor EXCEPT !.input = NoBatch], st |-> st, returned |-> "reset"]

\* The batches a caller prepares an executor of the kind with.
BatchesFor(kind) == IF kind = "SortedJoin" THEN Batches ELSE ImmediateBatches

\* The variables an immediate executor never writes.
immediate_frame == <<instruction_count, store, outputs_selected, replay, planner, disjunction>>

\* A step and, for an intersection step, the tuples its instructions read.
InitImmediate ==
    /\ imm \in {ImmediateForStep(step) : step \in ImmediateSteps}
    /\ IF imm.step.kind = "intersection"
       THEN /\ instruction_count \in 1..MaxImmediateExec
            /\ store \in [1..instruction_count -> DataOptions(1, KeyPatterns)]
       ELSE /\ instruction_count = 1
            /\ store = <<<<>>>>
    /\ outputs_selected = 1..OutputWidth
    /\ ex = IntersectionExecutorNew
    /\ out = <<>>
    /\ returned = "new"
    /\ batch_in = <<>>
    /\ resets = 0
    /\ replay = FALSE
    /\ planner = PlannerIdle
    /\ disjunction = DisjunctionIdle

\* The constructor of ImmediateExecutor for the step.
ImmNew ==
    /\ imm.phase = "step"
    /\ imm' = NewImmediate(imm.step)
    /\ UNCHANGED <<ex, out, returned, batch_in, resets>>
    /\ UNCHANGED immediate_frame

\* ImmediateExecutor::prepare
ImmPrepare ==
    /\ imm.phase = "built" /\ ~imm.panicked /\ ~ex.panicked
    /\ imm.kind = "SortedJoin" => ~InputPeekSome(ex.input)
    /\ \E input_batch \in BatchesFor(imm.kind) :
          \E r \in {ImmediatePrepare(imm, ex, input_batch)} :
             /\ imm' = [r.executor EXCEPT !.prepared = TRUE, !.calls = 0]
             /\ ex' = r.st
             /\ returned' = r.returned
             /\ batch_in' = input_batch
    /\ out' = <<>>
    /\ UNCHANGED resets
    /\ UNCHANGED immediate_frame

\* ImmediateExecutor::batch_continue, given the interrupt handle.
ImmBatchContinue ==
    /\ imm.phase = "built" /\ ~imm.panicked /\ ~ex.panicked
    /\ imm.kind = "SortedJoin" => ex.input.present
    /\ \E r \in {ImmediateBatchContinue(imm, ex, imm.interrupted)} :
          /\ imm' = [r.executor EXCEPT !.calls = MinOf(@ + 1, 2)]
          /\ ex' = r.st
          /\ returned' = r.returned
          /\ out' = out \o r.batch
    /\ UNCHANGED <<batch_in, resets>>
    /\ UNCHANGED immediate_frame

\* ImmediateExecutor::reset
ImmReset ==
    /\ imm.phase = "built" /\ ~imm.panicked /\ ~ex.panicked
    /\ resets < MaxResets
    /\ \E r \in {ImmediateReset(imm, ex)} :
          /\ imm' = [r.executor EXCEPT !.prepared = FALSE, !.calls = 0]
          /\ ex' = r.st
          /\ returned' = r.returned
    /\ out' = <<>>
    /\ batch_in' = <<>>
    /\ resets' = resets + 1
    /\ UNCHANGED immediate_frame

\* The query is interrupted: the handle the executors are given is signalled.
SignalInterrupt ==
    /\ imm.phase = "built"
    /\ ~imm.interrupted
    /\ imm' = [imm EXCEPT !.interrupted = TRUE]
    /\ UNCHANGED <<ex, out, returned, batch_in, resets>>
    /\ UNCHANGED immediate_frame

NextImmediate == ImmNew \/ ImmPrepare \/ ImmBatchContinue \/ ImmReset \/ SignalInterrupt

\* An executor is built for a step and driven by prepare, batch_continue and reset.
SpecImmediate == InitImmediate /\ [][NextImmediate]_vars

\* ------------------------------------------------------ planner properties
\* The plan beam_search_plan returned, if it returned one.
PlanReturned == planner.phase = "done" /\ planner.result.status = "Ok"
PlanningFailed == planner.phase = "done" /\ planner.result.status = "ExpectedPlannableConjunction"

Occurrences(seq, x) == Cardinality({i \in DOMAIN seq : seq[i] = x})

\* Position i of the ordering comes after a pattern that references var.
AfterReferencingPattern(graph, ordering, i, var) ==
    \E j \in 1..(i - 1) : ordering[j][1] = "pattern" /\ var \in VariablesOf(graph, ordering[j][2])

\* C14: in the vertex ordering of every complete plan that beam search returns,
\* every pattern vertex of the graph appears exactly once, and every variable
\* vertex that is not an input and appears does so exactly once, after a
\* pattern vertex that references it.
C14_OrderingComplete ==
    PlanReturned =>
        /\ \A p \in SearchPatterns(planner.graph) : Occurrences(planner.result.vertex_ordering, PatternId(p)) = 1
        /\ \A var \in GraphVariables(planner.graph) \ planner.graph.input_variables :
              /\ Occurrences(planner.result.vertex_ordering, VariableId(var)) <= 1
              /\ \A i \in DOMAIN planner.result.vertex_ordering :
                    planner.result.vertex_ordering[i] = VariableId(var)
                        => AfterReferencingPattern(planner.graph, planner.result.vertex_ordering, i, var)

\* A plan of three patterns was returned whose ordering ends with a stashed
\* check and holds a variable that is not an input.
C14_Witness ==
    /\ PlanReturned
    /\ NumPatterns(planner.graph) = 3
    /\ \E p \in SearchPatterns(planner.graph) :
          /\ CanBeTrivial(planner.graph, p)
          /\ planner.result.vertex_ordering[Len(planner.result.vertex_ordering)] = PatternId(p)
    /\ \E var \in GraphVariables(planner.graph) \ planner.graph.input_variables :
          VariableId(var) \in RangeOf(planner.result.vertex_ordering)

\* The partial plans of the search: the beam and the candidates it was picked from.
PartialPlans == IF planner.phase = "idle" THEN {} ELSE RangeOf(planner.best_partial_plans) \cup RangeOf(planner.new_plans)

\* The steps lowering has built, the open one included.
LoweredSteps == IF planner.phase = "idle" THEN {} ELSE RangeOf(planner.lowering.steps) \cup {planner.lowering.current}

\* C15: every member of an intersection step of two or more constraints
\* references the step's join variable. In the planner an ongoing step of two
\* or more patterns has a join variable that each of its patterns references;
\* in lowering no instruction is pushed into an open intersection step whose
\* sort variable its constraint does not contain, so every lowered
\* intersection step of two or more instructions is sorted on a variable of
\* each of them.
C15_MembersReferenceJoinVariable ==
    /\ \A plan \in PartialPlans :
          Cardinality(plan.ongoing_step) >= 2 \/ plan.ongoing_step_join_var # NoVertex
              => /\ plan.ongoing_step_join_var # NoVertex
                 /\ \A p \in plan.ongoing_step : plan.ongoing_step_join_var \in VariablesOf(planner.graph, p)
    /\ planner.phase = "lowering" =>
          /\ \A i \in DOMAIN planner.lowering.pushed :
                planner.lowering.pushed[i].open_sort_variable # NoVertex
                    => planner.lowering.pushed[i].open_sort_variable \in VariablesOf(planner.graph, planner.lowering.pushed[i].pattern)
          /\ \A step \in LoweredSteps :
                step.kind = "intersection" /\ Len(step.instructions) >= 2
                    => \A i \in DOMAIN step.instructions : step.sort_variable \in VariablesOf(planner.graph, step.instructions[i])

\* A plan whose ongoing step joined two constraints has been lowered to an
\* intersection step of two instructions, the second pushed into the open step.
C15_Witness ==
    /\ planner.phase = "lowering"
    /\ \E step \in RangeOf(planner.lowering.steps) : step.kind = "intersection" /\ Len(step.instructions) = 2
    /\ \E i \in DOMAIN planner.lowering.pushed : planner.lowering.pushed[i].open_sort_variable # NoVertex
    /\ \E plan \in RangeOf(planner.best_partial_plans) : Cardinality(plan.ongoing_step) = 2 /\ plan.ongoing_step_join_var # NoVertex

\* The search run with every hash set iterated in ascending order and equal
\* heap entries popped as pushed: the beam after the given number of iterations.
ReferenceBeamFrom(graph, plans, beam_width, extension_width) ==
    [plans |-> PickBest(Items(DrainSorted(Keyed(NewPlans(graph, plans, AscendingSeq(SearchPatterns(graph)), AscendingSeq(GraphVariables(graph)), "first", extension_width), PlanKey), "first")), <<>>, beam_width),
     beam_width |-> beam_width, extension_width |-> extension_width]

RECURSIVE ReferenceBeam(_, _)
ReferenceBeam(graph, iterations) ==
    IF iterations = 0
    THEN [plans |-> <<PartialCostPlanNew(SearchPatterns(graph), AscendingSeq(graph.input_variables))>>,
          beam_width |-> Clamp(NumPatterns(graph) * 2, 2, MAX_BEAM_WIDTH), extension_width |-> (NumPatterns(graph) \div 2) + 5]
    ELSE With(ReferenceBeam(graph, iterations - 1),
              LAMBDA before : ReferenceBeamFrom(graph, before.plans,
                                                NarrowedWidth(before.beam_width, iterations - 1, BEAM_REDUCTION_CYCLE),
                                                NarrowedWidth(before.extension_width, iterations - 1, EXTENSION_REDUCTION_CYCLE)))

ReferenceResultOf(graph, plans) ==
    IF plans = <<>> THEN [status |-> "ExpectedPlannableConjunction"]
    ELSE PlanResult(IntoCompletePlan(graph, MinPlan(plans), AscendingSeq(SearchPatterns(graph)), AscendingSeq(GraphVariables(graph))))

ReferenceResult(graph) == ReferenceResultOf(graph, ReferenceBeam(graph, NumPatterns(graph)).plans)

\* C16: planning is deterministic. Whatever the order in which the hash sets
\* are iterated and however equal heap entries are ordered, beam_search_plan
\* returns for a graph the vertex ordering, metadata and cost that it returns
\* when the sets are iterated in ascending order.
C16_PlanningDeterministic ==
    planner.phase = "done" => planner.result = ReferenceResult(planner.graph)

\* C17: at termination beam search returns, among the plans that survive in
\* the beam, the one whose cumulative cost after finalization (ongoing step
\* and stash closed) is lowest.
C17_ReturnsCheapestSurvivor ==
    PlanReturned =>
        \A i \in DOMAIN planner.best_partial_plans :
            planner.result.cumulative_cost.cost <= CostWithStepClosed(planner.best_partial_plans[i]).cost

\* C18: beam search advances in lockstep. After k iterations every plan in the
\* beam, and every candidate it was picked from, has exactly num_patterns - k
\* remaining patterns; after num_patterns iterations every surviving plan has
\* no remaining pattern.
C18_Lockstep ==
    planner.phase # "idle" =>
        /\ \A plan \in PartialPlans :
              Cardinality(plan.remaining_patterns) = NumPatterns(planner.graph) - planner.i
        /\ planner.phase \in {"done", "lowering"} =>
              \A plan \in RangeOf(planner.best_partial_plans) : plan.remaining_patterns = {}

\* Two of three iterations are done and the beam holds a plan that stashed a
\* check, a plan that joined two constraints in its ongoing step and a plan
\* that began a second step.
C18_Witness ==
    /\ planner.phase = "search"
    /\ NumPatterns(planner.graph) = 3
    /\ planner.i = 2
    /\ \E plan \in RangeOf(planner.best_partial_plans) : plan.ongoing_step_stash # <<>>
    /\ \E plan \in RangeOf(planner.best_partial_plans) : Cardinality(plan.ongoing_step) = 2
    /\ \E plan \in RangeOf(planner.best_partial_plans) : OrderedPatterns(plan.vertex_ordering) # {}

\* The candidates that are the first of their hash, in the order of the candidates.
FirstOfHash(candidates) ==
    SelectSeq([i \in DOMAIN candidates |-> i],
              LAMBDA i : \A j \in 1..(i - 1) : PlanHash(candidates[j]) # PlanHash(candidates[i]))

\* C19: after every beam iteration the beam holds at most beam_width plans, no
\* two of the same dedup key (number of remaining patterns, set of the pattern
\* ids in the ordering, set of the ongoing non-trivial pattern ids, ongoing
\* join variable), taken from the candidates in ascending heuristic order: the
\* candidates are ascending by heuristic cost, and the beam is made of the
\* first candidate of each key, in that order, up to beam_width of them.
C19_BeamBoundedAndDistinct ==
    (planner.phase = "search" /\ planner.i >= 1) =>
        /\ Len(planner.best_partial_plans) <= planner.beam_width
        /\ \A i, j \in DOMAIN planner.best_partial_plans :
              PlanHash(planner.best_partial_plans[i]) = PlanHash(planner.best_partial_plans[j]) => i = j
        /\ \A i, j \in DOMAIN planner.new_plans :
              i < j => planner.new_plans[i].heuristic.cost <= planner.new_plans[j].heuristic.cost
        /\ Len(planner.best_partial_plans) = MinOf(planner.beam_width, Len(FirstOfHash(planner.new_plans)))
        /\ \A i \in DOMAIN planner.best_partial_plans :
              planner.best_partial_plans[i] = planner.new_plans[FirstOfHash(planner.new_plans)[i]]

\* An iteration left a full beam: a candidate of a key already taken was
\* passed over, and a candidate of a new key was left out for lack of room.
C19_Witness ==
    /\ planner.phase = "search"
    /\ planner.i >= 1
    /\ Len(planner.best_partial_plans) = planner.beam_width
    /\ Len(FirstOfHash(planner.new_plans)) > planner.beam_width
    /\ \E i \in DOMAIN planner.new_plans :
          /\ i < FirstOfHash(planner.new_plans)[planner.beam_width]
          /\ \E j \in 1..(i - 1) : PlanHash(planner.new_plans[j]) = PlanHash(planner.new_plans[i])

\* A plan has a valid extension: one of its remaining patterns has its inputs available.
HasValidExtension(graph, plan) == \E p \in plan.remaining_patterns : IsValid(graph, p, AllAvailableVars(plan))

\* C20: beam_search_plan returns ExpectedPlannableConjunction exactly when no
\* partial plan survives to the end of the search, and the beam of an iteration
\* is empty exactly when no plan of the beam before it had a valid extension;
\* a returned ordering omits no pattern of the graph.
C20_ErrorIffNoSurvivor ==
    /\ [](planner.phase = "done" =>
             /\ planner.result.status \in {"Ok", "ExpectedPlannableConjunction"}
             /\ planner.result.status = "ExpectedPlannableConjunction" <=> planner.best_partial_plans = <<>>
             /\ planner.result.status = "Ok" =>
                   OrderedPatterns(planner.result.vertex_ordering) = SearchPatterns(planner.graph))
    /\ [][(planner.phase = "search" /\ planner'.phase = "search") =>
             (planner'.best_partial_plans = <<>>
                 <=> \A plan \in RangeOf(planner.best_partial_plans) : ~HasValidExtension(planner.graph, plan))]_vars

\* The search of a graph of three patterns, one of them a constraint, which can
\* always be planned first, ended with the error: the beam ran empty at a later
\* iteration.
C20_Witness ==
    /\ PlanningFailed
    /\ NumPatterns(planner.graph) = 3
    /\ \E p \in SearchPatterns(planner.graph) : IsConstraint(planner.graph, p)
    /\ planner.new_plans = <<>>

\* C21: with zero pattern vertices the initial plan is also the terminal plan.
\* beam_search_plan performs no iteration and returns an ordering that consists
\* of the input variable vertices only, each once, with empty metadata and the
\* no-op cumulative cost.
C21_ZeroPatternsTerminal ==
    (planner.phase # "idle" /\ NumPatterns(planner.graph) = 0) =>
        /\ planner.i = 0
        /\ planner.new_plans = <<>>
        /\ planner.phase = "done" =>
              /\ planner.result.status = "Ok"
              /\ RangeOf(planner.result.vertex_ordering) = {VariableId(var) : var \in planner.graph.input_variables}
              /\ Len(planner.result.vertex_ordering) = Cardinality(planner.graph.input_variables)
              /\ DOMAIN planner.result.pattern_metadata = {}
              /\ planner.result.cumulative_cost = NOOP

\* The search of a graph of no pattern and one input variable has returned.
C21_Witness ==
    /\ PlanReturned
    /\ NumPatterns(planner.graph) = 0
    /\ planner.graph.input_variables = {1}
    /\ planner.result.vertex_ordering = <<VariableId(1)>>

\* The tuples of an iterator as advance_past walks them: each distinct tuple
\* with the number of its copies.
RECURSIVE RunsOf(_, _)
RunsOf(tuples, pos) ==
    IF pos > Len(tuples) THEN <<>>
    ELSE <<[tuple |-> tuples[pos], count |-> RunLength(tuples, pos, tuples[pos])]>>
         \o RunsOf(tuples, pos + RunLength(tuples, pos, tuples[pos]))

\* The rows returned for input row r, in the order they were returned.
RowsOfInput(r) == SelectSeq(out, LAMBDA row : row.from_row = r)

\* The rows are the given runs of tuples, one row for each, in their order.
RowsAreRuns(rows, runs) ==
    /\ Len(rows) <= Len(runs)
    /\ \A i \in DOMAIN rows :
          /\ rows[i].vals[SortPos] = runs[i].tuple[1]
          /\ rows[i].vals[ValPos(1)] = runs[i].tuple[2]
          /\ rows[i].mult = runs[i].count

\* C22: with exactly one iterator in a step the intersection is a pass-through.
\* Every tuple of the iterator yields an output row, in the order of the
\* iterator, copies of a tuple being counted in the row's multiplicity;
\* find_intersection succeeds whenever the iterator peeks a tuple; the
\* cartesian sub-executor is never activated.
C22_SingleIteratorPassThrough ==
    (instruction_count = 1 /\ ex.input.present) =>
        /\ ~ex.cartesian_iterator.is_active
        /\ \A i \in DOMAIN out : ~out[i].cartesian
        /\ Len(ex.iterators) = 1 => FindIntersection(ex.iterators).found = HasPeek(ex.iterators[1])
        /\ \A r \in DOMAIN batch_in :
              /\ RowsAreRuns(RowsOfInput(r), RunsOf(Data(1, InputValue(r)), 1))
              /\ (r < ex.input.idx \/ ~InputPeekSome(ex.input))
                    => Len(RowsOfInput(r)) = Len(RunsOf(Data(1, InputValue(r)), 1))

\* A single iterator with two copies of a tuple and another tuple of the same
\* sort value has been passed through for the first of two input rows: a row
\* of multiplicity 2, then a row of the same value.
C22_Witness ==
    /\ instruction_count = 1
    /\ Len(batch_in) = 2
    /\ ex.input.present /\ ex.input.idx = 2
    /\ Len(RowsOfInput(1)) = 2
    /\ RowsOfInput(1)[1].mult = 2
    /\ RowsOfInput(1)[1].at_value = RowsOfInput(1)[2].at_value
    /\ Len(RowsOfInput(2)) >= 1

\* C23: new_unsorted_join returns the UnimplementedFunctionality(UnsortedJoin)
\* error for every unsorted-join step and constructs no executor, so no
\* ImmediateExecutor that is reached is of the UnsortedJoin variant.
C23_UnsortedJoinUnimplemented ==
    imm.phase # "idle" =>
        /\ imm.kind # "UnsortedJoin"
        /\ \A step \in ImmediateSteps :
              step.kind = "unsorted_join" =>
                  /\ NewUnsortedJoin(step).phase = "failed"
                  /\ NewUnsortedJoin(step).error = "UnimplementedFunctionality(UnsortedJoin)"
        /\ (imm.step.kind = "unsorted_join" /\ imm.phase # "step") =>
              /\ imm.phase = "failed"
              /\ imm.kind = "none"
              /\ imm.error = "UnimplementedFunctionality(UnsortedJoin)"
              /\ ~imm.panicked

\* The constructor has been called for an unsorted-join step.
C23_Witness ==
    /\ imm.phase = "failed"
    /\ imm.step.kind = "unsorted_join"
    /\ imm.error = "UnimplementedFunctionality(UnsortedJoin)"

\* The rows of the prepared batch on which every check of the step holds.
PassingRows == SelectSeq(batch_in, LAMBDA row : FilterForRow(imm.step.check_instructions, row.vals))

\* C24: the check step passes through exactly the input rows for which the
\* checker returns true, in input order, with the values of the selected
\* variables and nothing else; batch_continue returns None when no row passes,
\* and a batch_continue that follows another without a new prepare returns None.
C24_CheckPassesThrough ==
    (imm.phase = "built" /\ imm.kind = "Check") =>
        /\ imm.calls >= 1 => ~imm.input.present
        /\ ~imm.input.present => CheckBatchContinue(imm).returned = "none"
        /\ (imm.prepared /\ imm.calls >= 1) =>
              /\ Len(out) = Len(PassingRows)
              /\ \A i \in DOMAIN out :
                    \A p \in 1..imm.step.output_width :
                        out[i].vals[p] = IF p \in imm.step.selected_variables /\ p <= Len(PassingRows[i].vals)
                                         THEN PassingRows[i].vals[p] ELSE NoValue
              /\ imm.calls = 1 => returned = IF PassingRows = <<>> THEN "none" ELSE "batch"
              /\ imm.calls >= 2 => returned = "none"
        /\ (~imm.prepared /\ imm.calls >= 1) => out = <<>> /\ returned = "none"

\* Of a batch of two rows the check step has passed the second one on, and a
\* second batch_continue has returned None.
C24_Witness ==
    /\ imm.phase = "built" /\ imm.kind = "Check"
    /\ imm.prepared /\ imm.calls = 2
    /\ returned = "none"
    /\ Len(batch_in) = 2
    /\ Len(out) = 1
    /\ ~FilterForRow(imm.step.check_instructions, batch_in[1].vals)
    /\ out[1].vals[2] = batch_in[2].vals[2]

\* The expression of the step cannot be evaluated on the row: an input
\* variable is empty, or the divisor of a quotient is the number 0.
EvaluationFails(step, row) ==
    \/ \E i \in DOMAIN step.input_positions : row.vals[step.input_positions[i]] = NoValue
    \/ step.expression = "quotient" /\ row.vals[step.input_positions[2]] = IntoValue(0)

\* C25: if evaluating the assign step's expression fails for any row of the
\* input batch, batch_continue returns an ExpressionEvaluate error and emits
\* no batch, the rows evaluated before the failing row included; the batch is
\* not tried again: the next batch_continue returns None. Otherwise every
\* input row yields a row.
C25_AssignFailsTheBatch ==
    (imm.phase = "built" /\ imm.kind = "Assignment" /\ imm.prepared /\ imm.calls >= 1) =>
        /\ ~imm.input.present
        /\ IF \E r \in DOMAIN batch_in : EvaluationFails(imm.step, batch_in[r])
           THEN /\ out = <<>>
                /\ imm.calls = 1 => returned = "ExpressionEvaluate"
           ELSE /\ Len(out) = Len(batch_in)
                /\ imm.calls = 1 => returned = "batch"
        /\ imm.calls >= 2 => returned = "none"

\* The first row of a batch was evaluated, the division failed on the second:
\* batch_continue returned the error and no row.
C25_Witness ==
    /\ imm.phase = "built" /\ imm.kind = "Assignment"
    /\ imm.prepared /\ imm.calls = 1
    /\ Len(batch_in) = 2
    /\ ~EvaluationFails(imm.step, batch_in[1])
    /\ EvaluationFails(imm.step, batch_in[2])
    /\ batch_in[2].vals[1] # NoValue
    /\ returned = "ExpressionEvaluate"
    /\ out = <<>>

\* C26: every batch-producing call of an immediate executor honours the
\* interrupt handle it is given: once the interrupt has been signalled, no
\* batch_continue returns a batch of further rows.
C26_InterruptHonoured ==
    [][(imm.phase = "built" /\ imm.interrupted) => returned' # "batch"]_vars

\* P holds of every plan of the beam, every extension extensions_iter offers
\* it and the plan extend_with makes of the two, whatever the iteration order
\* of the hash sets.
ForEachExtension(P(_, _, _)) ==
    planner.phase = "search" =>
        \A plan \in RangeOf(planner.best_partial_plans) :
            \A pattern_order \in Orders(SearchPatterns(planner.graph)), variable_order \in VariableOrders(GraphVariables(planner.graph)) :
                \A extension \in RangeOf(ExtensionsIter(planner.graph, plan, pattern_order)) :
                    P(plan, extension, ExtendWith(planner.graph, plan, extension, pattern_order, variable_order))

\* The extended plan has the pattern in the ongoing step of the plan it extends.
ContinuesOngoingStep(plan, extension, extended) ==
    /\ plan.ongoing_step # {}
    /\ extended.ongoing_step = plan.ongoing_step \cup {extension.pattern_id}
\* The extended plan has the pattern in a step of its own.
BeginsNewStep(plan, extension, extended) ==
    /\ extended.ongoing_step = {extension.pattern_id}
    /\ plan.ongoing_step # {} => extended.vertex_ordering # plan.vertex_ordering
\* The extended plan has the pattern in its stash.
StashesPattern(plan, extension, extended) ==
    /\ extended.ongoing_step = plan.ongoing_step
    /\ extended.ongoing_step_stash = Append(plan.ongoing_step_stash, extension.pattern_id)

JoinVarKept(plan, extension, extended) ==
    /\ ContinuesOngoingStep(plan, extension, extended) \/ BeginsNewStep(plan, extension, extended) \/ StashesPattern(plan, extension, extended)
    /\ (ContinuesOngoingStep(plan, extension, extended) /\ plan.ongoing_step_join_var # NoVertex)
          => extended.ongoing_step_join_var = plan.ongoing_step_join_var
    /\ StashesPattern(plan, extension, extended) => extended.ongoing_step_join_var = plan.ongoing_step_join_var
    /\ BeginsNewStep(plan, extension, extended) => extended.ongoing_step_join_var = NoVertex
    /\ (plan.ongoing_step_join_var # NoVertex /\ extended.ongoing_step_join_var # plan.ongoing_step_join_var)
          => BeginsNewStep(plan, extension, extended) /\ extended.ongoing_step_join_var = NoVertex

\* C27: within one ongoing step, once ongoing_step_join_var is set, every
\* extension that continues the step, and every stashed check, leaves it the
\* same variable; it changes only when a new step begins, where it is none.
C27_JoinVarImmutableInStep == ForEachExtension(JoinVarKept)

\* A plan of the beam has joined two constraints, and among its extensions
\* one continues its step on the join variable and one begins a new step.
C27_Witness ==
    /\ planner.phase = "search"
    /\ \E plan \in RangeOf(planner.best_partial_plans) :
          /\ plan.ongoing_step_join_var # NoVertex
          /\ Cardinality(plan.ongoing_step) = 2
          /\ \E extension \in RangeOf(ExtensionsIter(planner.graph, plan, AscendingSeq(SearchPatterns(planner.graph)))) :
                ContinuesOngoingStep(plan, extension, ExtendWith(planner.graph, plan, extension, AscendingSeq(SearchPatterns(planner.graph)), AscendingSeq(GraphVariables(planner.graph))))
          /\ \E extension \in RangeOf(ExtensionsIter(planner.graph, plan, AscendingSeq(SearchPatterns(planner.graph)))) :
                BeginsNewStep(plan, extension, ExtendWith(planner.graph, plan, extension, AscendingSeq(SearchPatterns(planner.graph)), AscendingSeq(GraphVariables(planner.graph))))

StashKeepsStep(plan, extension, extended) ==
    ExtensionIsTrivial(planner.graph, extension) =>
        /\ extended.ongoing_step = plan.ongoing_step
        /\ extended.ongoing_step_join_var = plan.ongoing_step_join_var

\* C28: in every partial plan that is reached, ongoing_step_join_var is set if
\* and only if ongoing_step holds at least two patterns: a step of no or one
\* pattern has no join variable; stashing a trivial pattern changes neither
\* the step nor the join variable.
C28_JoinVarIffTwoPatterns ==
    /\ \A plan \in PartialPlans :
          plan.ongoing_step_join_var # NoVertex <=> Cardinality(plan.ongoing_step) >= 2
    /\ ForEachExtension(StashKeepsStep)

\* The beam holds a plan that joined two constraints and then stashed a check,
\* and a plan whose step has one pattern.
C28_Witness ==
    /\ planner.phase = "search"
    /\ \E plan \in RangeOf(planner.best_partial_plans) :
          /\ Cardinality(plan.ongoing_step) = 2
          /\ plan.ongoing_step_join_var # NoVertex
          /\ plan.ongoing_step_stash # <<>>
    /\ \E plan \in RangeOf(planner.best_partial_plans) :
          Cardinality(plan.ongoing_step) = 1 /\ plan.ongoing_step_join_var = NoVertex

\* The extensions of a plan that are applied in the iteration to come.
NextKeptExtensions(plan, pattern_order, ties) ==
    KeptExtensions(planner.graph, plan, pattern_order, ties, NarrowedWidth(planner.extension_width, planner.i, EXTENSION_REDUCTION_CYCLE))

\* The extended plan differs from the plan by the stashed pattern only.
OnlyStashed(plan, pattern, extended) ==
    /\ pattern \in plan.remaining_patterns
    /\ extended.remaining_patterns = plan.remaining_patterns \ {pattern}
    /\ extended.ongoing_step_stash = Append(plan.ongoing_step_stash, pattern)
    /\ extended.vertex_ordering = plan.vertex_ordering
    /\ extended.ongoing_step = plan.ongoing_step
    /\ extended.ongoing_step_join_var = plan.ongoing_step_join_var
    /\ extended.cumulative_cost = plan.cumulative_cost
    /\ extended.ongoing_step_cost = plan.ongoing_step_cost
    /\ extended.heuristic = plan.heuristic
    /\ extended.ongoing_step_produced_vars = plan.ongoing_step_produced_vars
    /\ extended.all_produced_vars = plan.all_produced_vars

\* C29: if any valid extension of a partial plan is trivial, the plan has
\* exactly one successor in the iteration, its other extensions being dropped;
\* the successor moves only the trivial pattern from remaining_patterns to the
\* stash and leaves vertex_ordering, ongoing_step, ongoing_step_join_var,
\* cumulative_cost, ongoing_step_cost and heuristic as they were.
C29_TrivialExtensionAlone ==
    planner.phase = "search" =>
        \A plan \in RangeOf(planner.best_partial_plans) :
            \A pattern_order \in Orders(SearchPatterns(planner.graph)), variable_order \in VariableOrders(GraphVariables(planner.graph)), ties \in TieBreaks :
                (\E extension \in RangeOf(ExtensionsIter(planner.graph, plan, pattern_order)) : ExtensionIsTrivial(planner.graph, extension))
                    => /\ Len(NextKeptExtensions(plan, pattern_order, ties)) = 1
                       /\ ExtensionIsTrivial(planner.graph, NextKeptExtensions(plan, pattern_order, ties)[1])
                       /\ OnlyStashed(plan, NextKeptExtensions(plan, pattern_order, ties)[1].pattern_id,
                                      ExtendWith(planner.graph, plan, NextKeptExtensions(plan, pattern_order, ties)[1], pattern_order, variable_order))

\* A plan of the beam whose step is open has a trivial extension and, before
\* it in iteration order, an extension that is not trivial.
C29_Witness ==
    /\ planner.phase = "search"
    /\ \E plan \in RangeOf(planner.best_partial_plans) :
          /\ plan.ongoing_step # {}
          /\ \E i, j \in DOMAIN ExtensionsIter(planner.graph, plan, AscendingSeq(SearchPatterns(planner.graph))) :
                /\ i < j
                /\ ~ExtensionIsTrivial(planner.graph, ExtensionsIter(planner.graph, plan, AscendingSeq(SearchPatterns(planner.graph)))[i])
                /\ ExtensionIsTrivial(planner.graph, ExtensionsIter(planner.graph, plan, AscendingSeq(SearchPatterns(planner.graph)))[j])

\* The extension carries a join variable that the ongoing step can be joined on.
CarriesCompatibleJoinVar(plan, extension) ==
    /\ extension.step_join_var # NoVertex
    /\ plan.ongoing_step_join_var \in {NoVertex, extension.step_join_var}

\* The vertices the extended plan has appended to the ordering of the plan.
AppendedVertices(plan, extended) == SubSeq(extended.vertex_ordering, Len(plan.vertex_ordering) + 1, Len(extended.vertex_ordering))

\* The extended plan has closed the ongoing step of the plan: the ordering has
\* grown by the patterns of the step and of its stash, every variable the step
\* produced is ordered, and the new step holds the pattern alone, unjoined.
ClosesStepAndOpensNew(plan, extension, extended) ==
    /\ Len(extended.vertex_ordering) >= Len(plan.vertex_ordering)
    /\ SubSeq(extended.vertex_ordering, 1, Len(plan.vertex_ordering)) = plan.vertex_ordering
    /\ OrderedPatterns(AppendedVertices(plan, extended)) = plan.ongoing_step \cup RangeOf(plan.ongoing_step_stash)
    /\ plan.ongoing_step_produced_vars \subseteq OrderedVariables(extended.vertex_ordering)
    /\ OrderedVariables(AppendedVertices(plan, extended)) \cap OrderedVariables(plan.vertex_ordering) = {}
    /\ extended.ongoing_step = {extension.pattern_id}
    /\ extended.ongoing_step_stash = <<>>
    /\ extended.ongoing_step_join_var = NoVertex

\* The extended plan has the pattern joined into the step of the plan, nothing
\* being closed.
KeepsStepOpen(plan, extension, extended) ==
    /\ extended.vertex_ordering = plan.vertex_ordering
    /\ extended.ongoing_step = plan.ongoing_step \cup {extension.pattern_id}
    /\ extended.ongoing_step_stash = plan.ongoing_step_stash
    /\ extended.ongoing_step_join_var = extension.step_join_var

StepClosurePolicy(plan, extension, extended) ==
    ~ExtensionIsTrivial(planner.graph, extension) =>
        IF IsConstraint(planner.graph, extension.pattern_id) /\ CarriesCompatibleJoinVar(plan, extension)
        THEN KeepsStepOpen(plan, extension, extended) /\ plan.ongoing_step # {}
        ELSE ClosesStepAndOpensNew(plan, extension, extended)

\* C30: an extension that is not trivial and not a constraint closes the
\* ongoing step and opens a step of that pattern alone without join variable;
\* a constraint continues the ongoing step only when it carries a join variable
\* compatible with the step and otherwise opens a new step too; the patterns,
\* produced variables and stash of the closed step are appended to the ordering.
C30_StepClosurePolicy == ForEachExtension(StepClosurePolicy)

\* A plan of the beam with an open step is offered an expression, a constraint
\* joined into the step and the same constraint unjoined.
C30_Witness ==
    /\ planner.phase = "search"
    /\ \E plan \in RangeOf(planner.best_partial_plans) :
          /\ plan.ongoing_step # {}
          /\ \E e1, e2, e3 \in RangeOf(ExtensionsIter(planner.graph, plan, AscendingSeq(SearchPatterns(planner.graph)))) :
                /\ ~IsConstraint(planner.graph, e1.pattern_id) /\ ~ExtensionIsTrivial(planner.graph, e1)
                /\ IsConstraint(planner.graph, e2.pattern_id) /\ CarriesCompatibleJoinVar(plan, e2)
                /\ IsConstraint(planner.graph, e3.pattern_id) /\ ~CarriesCompatibleJoinVar(plan, e3)

\* The vertices a closed step has added to the ordering are laid out as the
\* patterns of the step, then variables, then the patterns of the stash; a step
\* of several patterns has its join variable first among the variables, and no
\* pattern of the step comes after the first occurrence of the join variable.
StepLayout(plan, ordering) ==
    \E appended \in {SubSeq(ordering, Len(plan.vertex_ordering) + 1, Len(ordering))} :
       \E n \in {Cardinality(plan.ongoing_step)}, s \in {Len(plan.ongoing_step_stash)} :
          /\ SubSeq(ordering, 1, Len(plan.vertex_ordering)) = plan.vertex_ordering
          /\ Len(appended) >= n + s
          /\ {appended[i] : i \in 1..n} = {PatternId(p) : p \in plan.ongoing_step}
          /\ \A i \in (n + 1)..(Len(appended) - s) : appended[i][1] = "variable"
          /\ {appended[i][2] : i \in (n + 1)..(Len(appended) - s)} \subseteq plan.ongoing_step_produced_vars
          /\ \A k \in 1..s : appended[Len(appended) - s + k] = PatternId(plan.ongoing_step_stash[k])
          /\ n >= 2 =>
                /\ plan.ongoing_step_join_var # NoVertex
                /\ Len(appended) - s > n
                /\ appended[n + 1] = VariableId(plan.ongoing_step_join_var)
                /\ \A i, j \in DOMAIN ordering :
                      (ordering[i] = VariableId(plan.ongoing_step_join_var) /\ ordering[j][1] = "pattern" /\ ordering[j][2] \in plan.ongoing_step) => j < i

ClosedStepLayout(plan, extension, extended) ==
    (extended.vertex_ordering # plan.vertex_ordering \/ (~ExtensionIsTrivial(planner.graph, extension) /\ ~KeepsStepOpen(plan, extension, extended)))
        => StepLayout(plan, extended.vertex_ordering)

\* C31: the vertices of each closed step are laid out in the ordering as the
\* step's non-trivial patterns, then its produced variables, then its stash
\* patterns; with several patterns in the step the first variable after the
\* patterns is the join variable, so every pattern of the step precedes it.
\* This holds of each step closed by an extension and of the last step, which
\* into_complete_plan closes.
C31_ClosedStepLayout ==
    /\ ForEachExtension(ClosedStepLayout)
    /\ PlanReturned => StepLayout(MinPlan(planner.best_partial_plans), planner.result.vertex_ordering)

\* The plan returned has closed a step of two joined constraints that produced
\* variables and had a check stashed.
C31_Witness ==
    /\ PlanReturned
    /\ Cardinality(MinPlan(planner.best_partial_plans).ongoing_step) = 2
    /\ MinPlan(planner.best_partial_plans).ongoing_step_stash # <<>>
    /\ Cardinality(MinPlan(planner.best_partial_plans).ongoing_step_produced_vars) = 3

\* The patterns a plan has chosen: those of the ordering, of the ongoing step
\* and of the stash.
ChosenPatterns(plan) == OrderedPatterns(plan.vertex_ordering) \cup plan.ongoing_step \cup RangeOf(plan.ongoing_step_stash)

\* C32: within one beam iteration, a candidate plan that has the dedup key of a
\* plan kept in the beam has chosen the same set of patterns as the kept plan
\* and so has the same remaining_patterns: deduplication discards no plan whose
\* chosen patterns differ from those of the plan that is kept.
C32_SameKeySamePatterns ==
    planner.phase = "search" =>
        \A kept \in RangeOf(planner.best_partial_plans), candidate \in RangeOf(planner.new_plans) :
            PlanHash(kept) = PlanHash(candidate) =>
                /\ ChosenPatterns(kept) = ChosenPatterns(candidate)
                /\ kept.remaining_patterns = candidate.remaining_patterns

\* C33: the assertions of record_intersection never fail: whenever it has run,
\* every iterator peeked a tuple, the tuples agreed on the value of the sort
\* variable, and the intersection_value recorded was not empty.
C33_RecordAssertionsHold ==
    /\ \A k \in DOMAIN ex.found_log :
          /\ Len(ex.found_log[k].tuples) = instruction_count
          /\ \A i \in DOMAIN ex.found_log[k].tuples :
                /\ ex.found_log[k].tuples[i] # <<NoValue, NoValue>>
                /\ ex.found_log[k].tuples[i][1] = ex.found_log[k].tuples[1][1]
          /\ ex.found_log[k].value # NoValue
    /\ ex.found_log # <<>> => ex.intersection_value # NoValue

\* record_intersection has run twice over several iterators, the second time
\* at another value.
C33_Witness ==
    /\ instruction_count >= 2
    /\ Len(ex.found_log) >= 2
    /\ ex.found_log[1].value # ex.found_log[2].value
    /\ ~ex.panicked

\* One iterator per instruction executor, opened for the input row that is peeked.
OneIteratorPerExecutor ==
    /\ Len(ex.iterators) = instruction_count
    /\ InputPeekSome(ex.input)
    /\ \A e \in 1..instruction_count : ex.iterators[e].exec = e /\ ex.iterators[e].inp = CurrentInputValue

\* An instruction has no tuple for the input row that is peeked.
SomeIteratorOpensEmpty == InputPeekSome(ex.input) /\ \E e \in 1..instruction_count : Data(e, CurrentInputValue) = <<>>

\* The rows a step has added to the output.
AddedRows == {out'[k] : k \in {j \in DOMAIN out' : j > Len(out)}}

C35_DrainsToNone ==
    /\ [](returned # "panic")
    /\ (returned = "prepared") ~> (returned = "none")
    /\ [][returned = "none" => returned' \in {"none", "prepared"}]_vars
    /\ [][(returned = "none" /\ returned' = "none") => out' = out]_vars

\* batch_continue has returned None after more rows than one batch holds.
C35_Witness ==
    /\ returned = "none"
    /\ Len(out) > BatchRowsMax
    /\ Len(batch_in) = MaxInputRows

\* The rows compute_next_row computes from a state on, one after the other,
\* written as write_next_row_into writes them, with no batch in between.
RECURSIVE ComputedRows(_)
ComputedRows(st) ==
    With(ComputeNextRow(st), LAMBDA next :
      IF next.found /\ ~next.st.panicked THEN <<WriteNextRowInto(next.st)>> \o ComputedRows(next.st) ELSE <<>>)

\* C36: the batches that successive calls of batch_continue return, put one
\* after the other, are the rows computed, each once: a batch returned holds at
\* least one row and at most the batch size, and the rows returned so far
\* followed by the rows still to be computed are the same before and after a
\* call, no row being skipped or repeated where one batch ends.
C36_BatchesConcatenate ==
    /\ [][returned' = "batch" => (Len(out') - Len(out)) \in 1..BatchRowsMax]_vars
    /\ [][returned' = "none" => out' = out]_vars
    /\ [][returned' \in {"batch", "none"} => out' \o ComputedRows(ex') = out \o ComputedRows(ex)]_vars
    /\ [](returned = "none" => ComputedRows(ex) = <<>>)

\* Three batches were returned: full ones, and a last one that is not full.
C36_Witness ==
    /\ returned = "batch"
    /\ Len(out) = 2 * BatchRowsMax + 1
    /\ ComputedRows(ex) = <<>>
    /\ \E k \in DOMAIN out : out[k].cartesian

\* What the expression of an assign step evaluates to on a row.
ResultOn(step, row) == EvaluateExpression(step.expression, [i \in DOMAIN step.input_positions |-> TryFromValue(row.vals[step.input_positions[i]]).number]).number

\* C37: the assign step emits exactly one output row per input row of the
\* prepared batch, in input order, with the result of the expression written at
\* the output position, and with the multiplicity and the provenance of the
\* input row it was computed from.
C37_AssignRowPerInputRow ==
    (imm.phase = "built" /\ imm.kind = "Assignment" /\ imm.prepared /\ imm.calls = 1 /\ returned = "batch") =>
        /\ Len(out) = Len(batch_in)
        /\ \A r \in DOMAIN out :
              /\ imm.step.unbound \in 1..imm.step.output_width => out[r].vals[imm.step.unbound] = IntoValue(ResultOn(imm.step, batch_in[r]))
              /\ out[r].mult = batch_in[r].mult
              /\ out[r].prov = batch_in[r].prov

\* The bound a comparison gives its left variable, and the mirror image of it
\* that it gives its right variable.
MirrorBound(vertex, comparator, other, is_lhs) ==
    CASE comparator = "Equal" -> [vertex EXCEPT !.equal = @ \cup {other}]
      [] comparator \in {"Less", "LessOrEqual"} ->
            IF is_lhs THEN [vertex EXCEPT !.upper_bound = @ \cup {other}] ELSE [vertex EXCEPT !.lower_bound = @ \cup {other}]
      [] comparator \in {"Greater", "GreaterOrEqual"} ->
            IF is_lhs THEN [vertex EXCEPT !.lower_bound = @ \cup {other}] ELSE [vertex EXCEPT !.upper_bound = @ \cup {other}]
      [] OTHER -> vertex

\* The variable vertices with the mirrored bounds of the first n comparisons.
RECURSIVE MirroredBounds(_, _)
MirroredBounds(comparisons, n) ==
    IF n = 0 THEN [var \in 1..MaxComparedVariables |-> VariableVertexNew]
    ELSE [var \in 1..MaxComparedVariables |->
            MirrorBound(MirrorBound(MirroredBounds(comparisons, n - 1)[var],
                                    IF comparisons[n].lhs = InputVariable(var) THEN comparisons[n].comparator ELSE "NotEqual", comparisons[n].rhs, TRUE),
                        IF comparisons[n].rhs = InputVariable(var) THEN comparisons[n].comparator ELSE "NotEqual", comparisons[n].lhs, FALSE)]

\* C38: the bounds register_comparison imprints on the two variables of a
\* comparison are mirror images: Equal records an equal-bound on both sides,
\* lhs < rhs and lhs <= rhs record rhs as an upper bound of lhs and lhs as a
\* lower bound of rhs, lhs > rhs and lhs >= rhs record rhs as a lower bound of
\* lhs and lhs as an upper bound of rhs, and NotEqual, Like and Contains record
\* nothing on either side.
C38_BoundsMirrored ==
    planner.phase = "register" => planner.variables = MirroredBounds(planner.comparisons, Len(planner.comparisons))

\* ---------------------------------------------------------------------------
\* C39
\* ---------------------------------------------------------------------------

\* The pairs made by add_conjunction whose scope was never given as
\* unsatisfiable, in the order they were made.
SurvivingPairs == SelectSeq(disjunction.created, LAMBDA pair : pair.scope_id \notin disjunction.unsatisfiable)

\* C39: after any sequence of add_conjunction and
\* optimise_away_unsatisfiable_branches calls, conjunctions and branch_ids
\* have the same length, every retained conjunction stands at the index of
\* the branch id it was created with, and the branches removed are exactly
\* those whose scope id was in an unsatisfiable list.
C39_BranchesStayPaired ==
    disjunction.phase = "building" =>
       /\ Len(disjunction.disjunction.conjunctions) = Len(disjunction.disjunction.branch_ids)
       /\ ConjunctionsByBranchId(disjunction.disjunction) = SurvivingPairs

\* A branch between two others was removed, a conjunction was added after a
\* call of optimise_away_unsatisfiable_branches, and scope ids and branch ids
\* are out of step.
C39_Witness ==
    /\ disjunction.phase = "building"
    /\ \E i \in 1..Len(disjunction.calls), j \in 1..Len(disjunction.calls) :
          /\ i < j
          /\ disjunction.calls[i] = "optimise_away_unsatisfiable_branches"
          /\ disjunction.calls[j] = "add_conjunction"
    /\ Len(disjunction.created) = 3
    /\ Len(disjunction.disjunction.conjunctions) = 2
    /\ disjunction.created[2].scope_id \in disjunction.unsatisfiable
    /\ disjunction.created[3].scope_id \notin disjunction.unsatisfiable
    /\ \E i \in 1..3 : disjunction.created[i].scope_id # disjunction.created[i].branch_id + 1
    /\ disjunction.disjunction.branch_ids = <<disjunction.created[1].branch_id, disjunction.created[3].branch_id>>

====
